---- MODULE Spec2Model ----
(***************************************************************************)
(* The adaptive radix tree "bfm_tree" of src/bdbench/radix.c: a map from   *)
(* 64-bit keys to 64-bit values whose nodes come in six size classes.      *)
(*                                                                         *)
(* A key is the function of its eight bytes, byte i being                  *)
(* (key >> 8*i) & 0xFF, so that 64-bit keys stay exact.  The heap is a     *)
(* function from node addresses to node records; address 0 is NULL.  The   *)
(* operations are operators on the tree record t, which holds the fields   *)
(* of struct bfm_tree, the heap and three flags of the run:                *)
(*   crashed        a NULL pointer was dereferenced (the process is gone)  *)
(*   assert_failed  an Assert() of the source was false (an assert-enabled *)
(*                  build aborts there, a production build goes on)        *)
(*   oom            an allocation failed and the operation was abandoned   *)
(***************************************************************************)
EXTENDS Integers, Sequences, FiniteSets, TLC

(* ------------------------------------------------------------------ *)
(* Program constants                                                   *)
(* ------------------------------------------------------------------ *)
BFM_FANOUT == 8
BFM_MAX_CLASS == 256
BFM_MASK == 255
BFM_KIND_COUNT == 6
BFM_KIND_1 == 0
BFM_KIND_4 == 1
BFM_KIND_16 == 2
BFM_KIND_32 == 3
BFM_KIND_128 == 4
BFM_KIND_MAX == 5
BFM_TREE_NODE_128_INVALID == 255
BFM_TREE_NODE_INNER_4_INVALID == 255
BITS_PER_BYTE == 8
\* sizeof(bfm_key_type)
KeyBytes == 8
\* The byte delete writes over a class-1 node's chunk.
DeadChunk == 17
\* The value delete writes over the vacated last value of a leaf.
DeadValue == 255

NULL == 0
\* Content of memory that was allocated and never written.
Junk == -1

Min(S) == CHOOSE x \in S : \A y \in S : x <= y
Max(S) == CHOOSE x \in S : \A y \in S : x >= y

\* inner_class_info[kind].elements and leaf_class_info[kind].elements
class_elements(kind) ==
    CASE kind = BFM_KIND_1 -> 1
      [] kind = BFM_KIND_4 -> 4
      [] kind = BFM_KIND_16 -> 16
      [] kind = BFM_KIND_32 -> 32
      [] kind = BFM_KIND_128 -> 128
      [] kind = BFM_KIND_MAX -> BFM_MAX_CLASS

(* ------------------------------------------------------------------ *)
(* 64-bit keys as eight bytes                                          *)
(* ------------------------------------------------------------------ *)
KeyZero == [i \in 0..(KeyBytes - 1) |-> 0]
KeyAllOnes == [i \in 0..(KeyBytes - 1) |-> BFM_MASK]

\* (key >> shift) & BFM_MASK, shift a multiple of 8 below 64
KeyChunk(key, shift) == key[shift \div BFM_FANOUT]

\* a > b for unsigned 64-bit integers
KeyGt(a, b) ==
    \E i \in 0..(KeyBytes - 1) :
        /\ a[i] > b[i]
        /\ \A j \in (i + 1)..(KeyBytes - 1) : a[j] = b[j]

\* pg_leftmost_one_pos64(key), key # 0: the position of the highest set bit
Log2Byte(b) == Max({n \in 0..7 : 2 ^ n <= b})
pg_leftmost_one_pos64(key) ==
    LET top == Max({i \in 0..(KeyBytes - 1) : key[i] # 0})
    IN  BITS_PER_BYTE * top + Log2Byte(key[top])

\* The shift of the root a key needs (bfm_set_empty, bfm_set_shallow).
KeyShift(key) ==
    IF key = KeyZero THEN 0
    ELSE (pg_leftmost_one_pos64(key) \div BFM_FANOUT) * BFM_FANOUT

\* key + n * 256^byte, modulo 2^64
RECURSIVE KeyAdd(_, _, _)
KeyAdd(key, n, byte) ==
    IF n = 0 \/ byte >= KeyBytes THEN key
    ELSE LET s == key[byte] + n
         IN  KeyAdd([key EXCEPT ![byte] = s % BFM_MAX_CLASS],
                    s \div BFM_MAX_CLASS, byte + 1)

(* UINT64_C(1) << 64 is undefined in C.  The two results builds produce:   *)
(* "wrap" (the shift count is taken modulo 64, as the x86-64 and arm64     *)
(* shift instructions do: 1 << 0 = 1) and "zero" (all bits shifted out).   *)
ShiftUB == {"wrap", "zero"}

bfm_maxval_shift(shift, ub) ==
    LET maxshift == ((KeyBytes * BITS_PER_BYTE) \div BFM_FANOUT) * BFM_FANOUT
    IN  IF shift = maxshift THEN KeyAllOnes
        ELSE IF shift + BFM_FANOUT < KeyBytes * BITS_PER_BYTE
             THEN [i \in 0..(KeyBytes - 1) |->
                      IF i <= shift \div BFM_FANOUT THEN BFM_MASK ELSE 0]
             ELSE \* (1 << 64) - 1
                  IF ub = "wrap" THEN KeyZero ELSE KeyAllOnes

(* ------------------------------------------------------------------ *)
(* Nodes and allocation                                                *)
(* ------------------------------------------------------------------ *)
(* A node record holds the header of struct bfm_tree_node and, by class:   *)
(*   chunks   chunk (class 1) or chunks[] (classes 4, 16, 32)              *)
(*   offsets  offsets[] (class 128)                                        *)
(*   set      the presence bitmap set[] (class-256 leaf), 32 bytes         *)
(*   slots    slot/slots[] of an inner node, value/values[] of a leaf      *)
JunkArray(n) == [i \in 0..(n - 1) |-> Junk]
NoArray == <<>>

IsInner(node) == node.node_shift # 0

\* memset(&node->b, 0, sizeof(node->b)); node->b.kind = kind; the rest of the
\* allocation is left as it comes, but for the class-128 offsets and the
\* class-256 slots (inner) and bitmap (leaf).
NewNode(inner, kind) ==
    [kind |-> kind, node_shift |-> 0, node_chunk |-> 0, count |-> 0,
     parent |-> NULL,
     chunks |-> IF kind <= BFM_KIND_32 THEN JunkArray(class_elements(kind))
                ELSE NoArray,
     offsets |-> IF kind = BFM_KIND_128
                 THEN [i \in 0..(BFM_MAX_CLASS - 1) |-> BFM_TREE_NODE_128_INVALID]
                 ELSE NoArray,
     set |-> IF kind = BFM_KIND_MAX /\ ~inner
             THEN [i \in 0..(BFM_MAX_CLASS \div BITS_PER_BYTE - 1) |-> 0]
             ELSE NoArray,
     slots |-> IF kind = BFM_KIND_MAX /\ inner
               THEN [i \in 0..(BFM_MAX_CLASS - 1) |-> NULL]
               ELSE JunkArray(class_elements(kind))]

\* The address the allocator hands out: the lowest one not in use.
FreshAddr(t) ==
    Min({a \in 1..(Cardinality(DOMAIN t.nodes) + 1) : a \notin DOMAIN t.nodes})

\* bfm_alloc_node: t.alloc_budget counts the allocations that still succeed
\* (-1: all of them); MemoryContextAlloc raises an error when memory is out.
bfm_alloc_node(t, inner, kind) ==
    IF t.alloc_budget = 0
    THEN [t |-> [t EXCEPT !.oom = TRUE], node |-> NULL]
    ELSE LET a == FreshAddr(t)
         IN  [t |-> [t EXCEPT !.nodes = @ @@ (a :> NewNode(inner, kind)),
                              !.alloc_budget = IF @ > 0 THEN @ - 1 ELSE @],
              node |-> a]

\* root->inner_nodes[kind]++ comes before the allocation
bfm_alloc_inner(t, kind) ==
    bfm_alloc_node([t EXCEPT !.inner_nodes[kind] = @ + 1], TRUE, kind)

bfm_alloc_leaf(t, kind) ==
    bfm_alloc_node([t EXCEPT !.leaf_nodes[kind] = @ + 1], FALSE, kind)

FreeAddr(t, node) ==
    [t EXCEPT !.nodes = [a \in (DOMAIN t.nodes) \ {node} |-> t.nodes[a]]]

bfm_free_inner(t, node) ==
    FreeAddr([t EXCEPT !.inner_nodes[t.nodes[node].kind] = @ - 1,
                       !.assert_failed = @ \/ t.nodes[node].node_shift = 0],
             node)

bfm_free_leaf(t, node) ==
    FreeAddr([t EXCEPT !.leaf_nodes[t.nodes[node].kind] = @ - 1,
                       !.assert_failed = @ \/ t.nodes[node].node_shift # 0],
             node)

\* BFM_LEAF_MAX_SET_OFFSET, BFM_LEAF_MAX_SET_BIT and the three bitmap helpers
BFM_LEAF_MAX_SET_OFFSET(i) == i \div BITS_PER_BYTE
BFM_LEAF_MAX_SET_BIT(i) == 2 ^ (i % BITS_PER_BYTE)
ByteHasBit(byte, bit) == (byte \div bit) % 2 = 1
bfm_leaf_max_isset(node, i) ==
    ByteHasBit(node.set[BFM_LEAF_MAX_SET_OFFSET(i)], BFM_LEAF_MAX_SET_BIT(i))
bfm_leaf_max_set(node, i) ==
    IF bfm_leaf_max_isset(node, i) THEN node
    ELSE [node EXCEPT !.set[BFM_LEAF_MAX_SET_OFFSET(i)] = @ + BFM_LEAF_MAX_SET_BIT(i)]
bfm_leaf_max_unset(node, i) ==
    IF bfm_leaf_max_isset(node, i)
    THEN [node EXCEPT !.set[BFM_LEAF_MAX_SET_OFFSET(i)] = @ - BFM_LEAF_MAX_SET_BIT(i)]
    ELSE node

\* bfm_init: memset(root, 0, sizeof(*root))
bfm_init ==
    [rnode |-> NULL, maxval |-> KeyZero, entries |-> 0,
     inner_nodes |-> [k \in 0..(BFM_KIND_COUNT - 1) |-> 0],
     leaf_nodes |-> [k \in 0..(BFM_KIND_COUNT - 1) |-> 0],
     nodes |-> <<>>,
     alloc_budget |-> -1, oom |-> FALSE,
     crashed |-> FALSE, assert_failed |-> FALSE]

(* ------------------------------------------------------------------ *)
(* Chunk-array search                                                  *)
(* ------------------------------------------------------------------ *)
\* the scalar loops of the class-4 searches
search_chunk_array_4_eq(chunks, match, count) ==
    LET hits == {i \in 0..(count - 1) : chunks[i] = match}
    IN  IF hits = {} THEN -1 ELSE Min(hits)

search_chunk_array_4_le(chunks, match, count) ==
    LET hits == {i \in 0..(count - 1) : chunks[i] >= match}
    IN  IF hits = {} THEN count ELSE Min(hits)

(* The vector forms: compare all lanes, keep the low `count` bits of the   *)
(* compare mask, take the lowest set bit.  A bitfield is the set of its    *)
(* set bit positions.                                                      *)
\* fault variant: the compare mask is not cut to count bits
LaneMaskFull(count, lanes) == 0..(lanes - 1)

LaneMask(count, lanes) == {i \in 0..(lanes - 1) : i < count}

search_chunk_array_16_eq(chunks, match, count) ==
    LET cmp == {i \in 0..15 : chunks[i] = match}
        bitfield == cmp \cap LaneMask(count, 16)
    IN  IF bitfield # {} THEN Min(bitfield) ELSE -1

\* _mm_min_epu8(haystack, match) = match exactly where haystack >= match
search_chunk_array_16_le(chunks, match, count) ==
    LET cmp == {i \in 0..15 : chunks[i] >= match}
        bitfield == cmp \cap LaneMask(count, 16)
    IN  IF bitfield # {} THEN Min(bitfield) ELSE count

search_chunk_array_32_eq(chunks, match, count) ==
    LET cmp == {i \in 0..31 : chunks[i] = match}
        bitfield == cmp \cap LaneMask(count, 32)
    IN  IF bitfield # {} THEN Min(bitfield) ELSE -1

(* (1 << count) - 1 on a 32-bit int.  1 << 32 is undefined in C: "wrap"    *)
(* takes the shift count modulo 32 (1 << 0 = 1, the mask is empty), "zero"  *)
(* shifts every bit out (0 - 1, the mask is full).                          *)
IntMask(count, ub) ==
    IF count < 32 THEN LaneMask(count, 32)
    ELSE IF ub = "wrap" THEN {} ELSE 0..31

search_chunk_array_32_le(chunks, match, count, ub) ==
    LET cmp == {i \in 0..31 : chunks[i] >= match}
        bitfield == cmp \cap IntMask(count, ub)
    IN  IF bitfield # {} THEN Min(bitfield) ELSE count

\* The equality search a node of classes 4, 16, 32 uses.
search_eq(kind, chunks, match, count) ==
    CASE kind = BFM_KIND_4 -> search_chunk_array_4_eq(chunks, match, count)
      [] kind = BFM_KIND_16 -> search_chunk_array_16_eq(chunks, match, count)
      [] kind = BFM_KIND_32 -> search_chunk_array_32_eq(chunks, match, count)

\* fault variant: the new chunk always goes behind the ones that are there
search_le_append(kind, chunks, match, count) == count

\* bfm_insert_inner and bfm_set_leaf search a class-32 node only while it
\* has room (count < 32), where the mask is the same in every build
search_le(kind, chunks, match, count) ==
    CASE kind = BFM_KIND_4 -> search_chunk_array_4_le(chunks, match, count)
      [] kind = BFM_KIND_16 -> search_chunk_array_16_le(chunks, match, count)
      [] kind = BFM_KIND_32 ->
            search_chunk_array_32_le(chunks, match, count, "wrap")

(* ------------------------------------------------------------------ *)
(* One-level finds and the walk                                        *)
(* ------------------------------------------------------------------ *)
\* bfm_find_one_level_inner: the child slot for chunk, NULL when there is none
bfm_find_one_level_inner(node, chunk) ==
    CASE node.kind = BFM_KIND_1 ->
            IF node.chunks[0] = chunk THEN node.slots[0] ELSE NULL
      [] node.kind \in {BFM_KIND_4, BFM_KIND_16, BFM_KIND_32} ->
            LET index == search_eq(node.kind, node.chunks, chunk, node.count)
            IN  IF index # -1 THEN node.slots[index] ELSE NULL
      [] node.kind = BFM_KIND_128 ->
            IF node.offsets[chunk] # BFM_TREE_NODE_128_INVALID
            THEN node.slots[node.offsets[chunk]] ELSE NULL
      [] node.kind = BFM_KIND_MAX -> node.slots[chunk]

\* bfm_find_one_level_leaf: (found, *valp)
NotFound == [found |-> FALSE, val |-> Junk]
Found(v) == [found |-> TRUE, val |-> v]

bfm_find_one_level_leaf(node, chunk) ==
    CASE node.kind = BFM_KIND_1 ->
            IF node.count = 1 /\ node.chunks[0] = chunk
            THEN Found(node.slots[0]) ELSE NotFound
      [] node.kind \in {BFM_KIND_4, BFM_KIND_16, BFM_KIND_32} ->
            LET index == search_eq(node.kind, node.chunks, chunk, node.count)
            IN  IF index # -1 THEN Found(node.slots[index]) ELSE NotFound
      [] node.kind = BFM_KIND_128 ->
            IF node.offsets[chunk] # BFM_TREE_NODE_128_INVALID
            THEN Found(node.slots[node.offsets[chunk]]) ELSE NotFound
      [] node.kind = BFM_KIND_MAX ->
            IF bfm_leaf_max_isset(node, chunk)
            THEN Found(node.slots[chunk]) ELSE NotFound

\* The pointer refers to a node that is allocated.  Following any other
\* pointer but NULL (freed or never written memory) is undefined.
Live(t, ptr) == ptr \in DOMAIN t.nodes

(* bfm_walk: [found, val, node, asserts, wild].  node is *nodep: NULL when  *)
(* the key cannot be in the tree, the inner node that lacks the child, or  *)
(* the leaf reached.  asserts: one of the walk's Assert()s was false.      *)
(* wild: the walk followed a pointer to no allocated node.                 *)
RECURSIVE WalkFrom(_, _, _, _, _)
WalkFrom(t, cur, shift, key, bad) ==
    LET node == t.nodes[cur]
        chunk == KeyChunk(key, shift)
    IN  IF shift > 0
        THEN LET slot == bfm_find_one_level_inner(node, chunk)
                 bad1 == bad \/ node.node_shift # shift
             IN  IF slot = NULL
                 THEN [found |-> FALSE, val |-> Junk, node |-> cur,
                       asserts |-> bad1, wild |-> FALSE]
                 ELSE IF ~Live(t, slot)
                 THEN [found |-> FALSE, val |-> Junk, node |-> NULL,
                       asserts |-> bad1, wild |-> TRUE]
                 ELSE WalkFrom(t, slot, shift - BFM_FANOUT, key,
                               bad1 \/ t.nodes[slot].parent # cur
                                    \/ t.nodes[slot].node_chunk # chunk)
        ELSE LET r == bfm_find_one_level_leaf(node, chunk)
             IN  [found |-> r.found, val |-> r.val, node |-> cur,
                  asserts |-> bad \/ node.node_shift # 0, wild |-> FALSE]

bfm_walk(t, key) ==
    IF t.rnode = NULL \/ KeyGt(key, t.maxval)
    THEN [found |-> FALSE, val |-> Junk, node |-> NULL, asserts |-> FALSE,
          wild |-> FALSE]
    ELSE WalkFrom(t, t.rnode, t.nodes[t.rnode].node_shift, key, FALSE)

\* bfm_lookup: (return value, *val)
bfm_lookup(t, key) ==
    LET w == bfm_walk(t, key) IN [found |-> w.found, val |-> w.val]

(* ------------------------------------------------------------------ *)
(* Growth and insertion, inner nodes                                   *)
(* ------------------------------------------------------------------ *)
Crash(t) == [t EXCEPT !.crashed = TRUE]
Check(t, cond) == [t EXCEPT !.assert_failed = @ \/ ~cond]

\* memmove of the entries from pos up by one, then the new entry at pos
ArrayInsert(arr, pos, count, x) ==
    [i \in DOMAIN arr |->
        IF i = pos THEN x
        ELSE IF i > pos /\ i <= count THEN arr[i - 1]
        ELSE arr[i]]

\* memmove of the entries after index down by one; the vacated last entry
\* (index count - 1) gets `dead`
ArrayRemove(arr, index, count, dead) ==
    [i \in DOMAIN arr |->
        IF i = count - 1 THEN dead
        ELSE IF i >= index /\ i < count - 1 THEN arr[i + 1]
        ELSE arr[i]]

\* fault variant: the children keep the parent pointer they had
SetParentsKeeping(t, children, parent) == t

\* child->parent = parent for every child of the set
SetParents(t, children, parent) ==
    [t EXCEPT !.nodes = [a \in DOMAIN t.nodes |->
        IF a \in children THEN [t.nodes[a] EXCEPT !.parent = parent]
        ELSE t.nodes[a]]]

(* bfm_redirect: make the parent of oldnode (or the tree) point to newnode *)
(* under key chunk `chunk`.  A parent that does not hold the chunk is an   *)
(* out-of-bounds write in the source; here the run is over.                *)
bfm_redirect(t, oldnode, newnode, chunk) ==
    LET parent == t.nodes[oldnode].parent
        p == t.nodes[parent]
    IN  IF parent = NULL
        THEN [Check(t, t.rnode = oldnode) EXCEPT !.rnode = newnode]
        ELSE IF ~Live(t, parent) THEN Crash(t)
        ELSE CASE p.kind = BFM_KIND_1 ->
                    [Check(t, p.slots[0] = oldnode /\ p.chunks[0] = chunk)
                        EXCEPT !.nodes[parent].slots[0] = newnode]
               [] p.kind \in {BFM_KIND_4, BFM_KIND_16, BFM_KIND_32} ->
                    LET index == search_eq(p.kind, p.chunks, chunk, p.count)
                    IN  IF index = -1 THEN Crash(Check(t, FALSE))
                        ELSE [Check(t, p.slots[index] = oldnode)
                                EXCEPT !.nodes[parent].slots[index] = newnode]
               [] p.kind = BFM_KIND_128 ->
                    LET offset == p.offsets[chunk]
                    IN  IF offset = BFM_TREE_NODE_128_INVALID
                        THEN Crash(Check(t, FALSE))
                        ELSE [Check(t, p.slots[offset] = oldnode)
                                EXCEPT !.nodes[parent].slots[offset] = newnode]
               [] p.kind = BFM_KIND_MAX ->
                    [Check(t, p.slots[chunk] = oldnode)
                        EXCEPT !.nodes[parent].slots[chunk] = newnode]

\* fault: bfm_node_copy_common without its "new->count = old->count"
bfm_node_copy_common_nocount(oldrec, newrec) ==
    [newrec EXCEPT !.node_shift = oldrec.node_shift,
                   !.node_chunk = oldrec.node_chunk,
                   !.parent = oldrec.parent]

bfm_node_copy_common(oldrec, newrec) ==
    [newrec EXCEPT !.node_shift = oldrec.node_shift,
                   !.node_chunk = oldrec.node_chunk,
                   !.count = oldrec.count,
                   !.parent = oldrec.parent]

\* fault: chunk_slot_array_grow whose memcpy lengths are one element short
chunk_slot_array_grow_short(oldrec, newrec) ==
    [newrec EXCEPT
        !.chunks = [i \in DOMAIN newrec.chunks |->
                       IF i < oldrec.count - 1 THEN oldrec.chunks[i] ELSE @[i]],
        !.slots = [i \in DOMAIN newrec.slots |->
                       IF i < oldrec.count - 1 THEN oldrec.slots[i] ELSE @[i]]]

\* chunk_slot_array_grow: memcpy of the first count chunks and slots
chunk_slot_array_grow(oldrec, newrec) ==
    [newrec EXCEPT
        !.chunks = [i \in DOMAIN newrec.chunks |->
                       IF i < oldrec.count THEN oldrec.chunks[i] ELSE @[i]],
        !.slots = [i \in DOMAIN newrec.slots |->
                       IF i < oldrec.count THEN oldrec.slots[i] ELSE @[i]]]

(* The "grow node from N -> M" blocks of bfm_insert_inner, for a node whose *)
(* count equals its class capacity: allocate the next class, copy, repoint *)
(* the children, redirect the parent, free the old node.                   *)
(* Returns [t, node]: the tree and the node that replaces `node`.          *)
GrownInner(oldrec, newrec) ==
    LET base == bfm_node_copy_common(oldrec, newrec)
    IN  CASE oldrec.kind = BFM_KIND_1 ->
                [base EXCEPT !.chunks[0] = oldrec.chunks[0],
                             !.slots[0] = oldrec.slots[0]]
          [] oldrec.kind \in {BFM_KIND_4, BFM_KIND_16} ->
                chunk_slot_array_grow(oldrec, base)
          [] oldrec.kind = BFM_KIND_32 ->
                [base EXCEPT
                    !.slots = [i \in DOMAIN base.slots |->
                                  IF i < 32 THEN oldrec.slots[i] ELSE @[i]],
                    !.offsets = [c \in DOMAIN base.offsets |->
                        LET is == {i \in 0..31 : oldrec.chunks[i] = c}
                        IN  IF is = {} THEN @[c] ELSE Max(is)]]
          [] oldrec.kind = BFM_KIND_128 ->
                [base EXCEPT
                    !.slots = [c \in DOMAIN base.slots |->
                        IF oldrec.offsets[c] = BFM_TREE_NODE_128_INVALID
                        THEN @[c] ELSE oldrec.slots[oldrec.offsets[c]]]]

\* the children whose parent pointer the growth block rewrites
GrownChildren(oldrec) ==
    CASE oldrec.kind = BFM_KIND_1 -> {oldrec.slots[0]}
      [] oldrec.kind \in {BFM_KIND_4, BFM_KIND_16} ->
            {oldrec.slots[i] : i \in 0..(oldrec.count - 1)}
      [] oldrec.kind = BFM_KIND_32 -> {oldrec.slots[i] : i \in 0..31}
      [] oldrec.kind = BFM_KIND_128 ->
            {oldrec.slots[oldrec.offsets[c]] :
                c \in {c \in 0..(BFM_MAX_CLASS - 1) :
                         oldrec.offsets[c] # BFM_TREE_NODE_128_INVALID}}

\* bfm_free_inner(root, node) at the end of a growth or delete block
FreeInnerIfRunning(t, node) == IF t.crashed THEN t ELSE bfm_free_inner(t, node)

\* a growth block after its allocation of node `new`
GrowInnerInto(t, node, oldrec, children, new) ==
    IF ~(children \subseteq DOMAIN t.nodes)
    THEN \* slot->parent = ... through a pointer to no node
         [t |-> Crash(Check(t, FALSE)), node |-> node]
    ELSE [t |-> FreeInnerIfRunning(
                    bfm_redirect(
                        SetParents(
                            [Check(t, \A c \in children : t.nodes[c].parent = node)
                                EXCEPT !.nodes[new] = GrownInner(oldrec, @)],
                            children, new),
                        node, new, oldrec.node_chunk),
                    node),
          node |-> new]

GrowInnerAlloc(a, node, oldrec) ==
    IF a.t.oom THEN [t |-> a.t, node |-> node]
    ELSE GrowInnerInto(a.t, node, oldrec, GrownChildren(oldrec), a.node)

bfm_grow_inner(t, node) ==
    GrowInnerAlloc(bfm_alloc_inner(t, t.nodes[node].kind + 1), node,
                   t.nodes[node])

(* The insertion branches of bfm_insert_inner, for a node with room.       *)
InnerPut(t, node, child, child_chunk) ==
    LET n == t.nodes[node]
        t1 == [t EXCEPT !.nodes[child].parent = node]
    IN  CASE n.kind = BFM_KIND_1 ->
                [t1 EXCEPT !.nodes[node].chunks[0] = child_chunk,
                           !.nodes[node].slots[0] = child]
          [] n.kind \in {BFM_KIND_4, BFM_KIND_16, BFM_KIND_32} ->
                LET insertpos == search_le(n.kind, n.chunks, child_chunk, n.count)
                IN  [t1 EXCEPT
                        !.nodes[node].slots = ArrayInsert(@, insertpos, n.count, child),
                        !.nodes[node].chunks = ArrayInsert(@, insertpos, n.count, child_chunk)]
          [] n.kind = BFM_KIND_128 ->
                \* offset = count: "this may overwrite entry if there had
                \* been deletions"
                LET offset == n.count
                IN  [t1 EXCEPT !.nodes[node].offsets[child_chunk] = offset,
                               !.nodes[node].slots[offset] = child]
          [] n.kind = BFM_KIND_MAX ->
                [Check(t1, n.count <= BFM_MAX_CLASS - 1 /\ n.slots[child_chunk] = NULL)
                    EXCEPT !.nodes[node].slots[child_chunk] = child]

(* bfm_insert_inner: insert child into node under child_chunk, growing the *)
(* node to the next class first when it is full.  node = NULL is the       *)
(* dereference of a NULL pointer.                                          *)
\* fault variant: the node grows with one place still free
InnerFullEarly(n) ==
    n.kind # BFM_KIND_MAX /\ n.count > 0 /\ n.count >= class_elements(n.kind) - 1

\* the node has no room left for one more child
InnerFull(n) == n.kind # BFM_KIND_MAX /\ n.count = class_elements(n.kind)

\* g = [t, node]: the tree and the node after the growth block, if one ran
InsertInnerGrown(g, child, child_chunk) ==
    IF g.t.oom \/ g.t.crashed THEN g.t
    ELSE [InnerPut(g.t, g.node, child, child_chunk)
            EXCEPT !.nodes[g.node].count = @ + 1]

bfm_insert_inner(t, node, child, child_chunk) ==
    IF node = NULL THEN Crash(t)
    ELSE InsertInnerGrown(
            IF InnerFull(t.nodes[node])
            THEN bfm_grow_inner(
                    [Check(t, t.nodes[node].node_shift # 0)
                        EXCEPT !.nodes[child].node_chunk = child_chunk], node)
            ELSE [t |-> [Check(t, t.nodes[node].node_shift # 0)
                            EXCEPT !.nodes[child].node_chunk = child_chunk],
                  node |-> node],
            child, child_chunk)

(* ------------------------------------------------------------------ *)
(* Growth and insertion, leaf nodes                                    *)
(* ------------------------------------------------------------------ *)
(* The new leaf of bfm_grow_leaf_1 .. bfm_grow_leaf_128: the old entries   *)
(* and the new one, count one more than the old count.                     *)
GrownLeaf(oldrec, newrec, child_chunk, val) ==
    LET base == bfm_node_copy_common(oldrec, newrec)
        filled ==
          CASE oldrec.kind = BFM_KIND_1 ->
                \* copy old & insert new value in the right order
                IF child_chunk < oldrec.chunks[0]
                THEN [base EXCEPT !.chunks[0] = child_chunk, !.slots[0] = val,
                                  !.chunks[1] = oldrec.chunks[0],
                                  !.slots[1] = oldrec.slots[0]]
                ELSE [base EXCEPT !.chunks[0] = oldrec.chunks[0],
                                  !.slots[0] = oldrec.slots[0],
                                  !.chunks[1] = child_chunk, !.slots[1] = val]
            [] oldrec.kind \in {BFM_KIND_4, BFM_KIND_16} ->
                LET insertpos == search_le(oldrec.kind, oldrec.chunks,
                                           child_chunk, oldrec.count)
                    Copy(old, new, x) ==
                        [i \in DOMAIN new |->
                            IF i < insertpos THEN old[i]
                            ELSE IF i = insertpos THEN x
                            ELSE IF i <= oldrec.count THEN old[i - 1]
                            ELSE new[i]]
                IN  [base EXCEPT
                        !.chunks = Copy(oldrec.chunks, @, child_chunk),
                        !.slots = Copy(oldrec.slots, @, val)]
            [] oldrec.kind = BFM_KIND_32 ->
                LET offset == base.count
                    copied == [c \in 0..(BFM_MAX_CLASS - 1) |->
                        LET is == {i \in 0..31 : oldrec.chunks[i] = c}
                        IN  IF is = {} THEN base.offsets[c] ELSE Max(is)]
                IN  [base EXCEPT
                        !.slots = [i \in DOMAIN base.slots |->
                                      IF i = offset THEN val
                                      ELSE IF i < 32 THEN oldrec.slots[i]
                                      ELSE @[i]],
                        !.offsets = [copied EXCEPT ![child_chunk] = offset]]
            [] oldrec.kind = BFM_KIND_128 ->
                LET present == {c \in 0..(BFM_MAX_CLASS - 1) :
                                  oldrec.offsets[c] # BFM_TREE_NODE_128_INVALID}
                    bitmap == [byte \in DOMAIN base.set |->
                        LET Bit(bit) ==
                              IF (byte * BITS_PER_BYTE + bit) \in present
                              THEN 2 ^ bit ELSE 0
                        IN  Bit(0) + Bit(1) + Bit(2) + Bit(3)
                            + Bit(4) + Bit(5) + Bit(6) + Bit(7)]
                    withold == [base EXCEPT
                        !.set = bitmap,
                        !.slots = [c \in DOMAIN base.slots |->
                                      IF c \in present
                                      THEN oldrec.slots[oldrec.offsets[c]]
                                      ELSE @[c]]]
                IN  [bfm_leaf_max_set(withold, child_chunk)
                        EXCEPT !.slots[child_chunk] = val]
    IN  [filled EXCEPT !.count = @ + 1]

\* bfm_grow_leaf_N: [t, ret]
FreeLeafIfRunning(t, node) == IF t.crashed THEN t ELSE bfm_free_leaf(t, node)

GrowLeafAlloc(a, node, oldrec, child_chunk, val) ==
    IF a.t.oom THEN [t |-> a.t, ret |-> FALSE]
    ELSE [t |-> FreeLeafIfRunning(
                    bfm_redirect(
                        [a.t EXCEPT
                            !.nodes[a.node] = GrownLeaf(oldrec, @, child_chunk, val),
                            !.entries = @ + 1],
                        node, a.node, oldrec.node_chunk),
                    node),
          ret |-> FALSE]

bfm_grow_leaf(t, node, child_chunk, val) ==
    GrowLeafAlloc(bfm_alloc_leaf(t, t.nodes[node].kind + 1), node,
                  t.nodes[node], child_chunk, val)

(* bfm_set_leaf: set the value for child_chunk in leaf `node`.             *)
(* [t, ret]: ret is true when the chunk was there and its value replaced.  *)
LeafOverwrite(t, node, index, val) ==
    [t |-> [t EXCEPT !.nodes[node].slots[index] = val], ret |-> TRUE]

LeafAdded(t, node) ==
    [t |-> [t EXCEPT !.nodes[node].count = @ + 1, !.entries = @ + 1],
     ret |-> FALSE]

bfm_set_leaf(t, key, val, node, child_chunk) ==
    LET t0 == Check(t, t.nodes[node].node_shift = 0)
        n == t0.nodes[node]
    IN  CASE n.kind = BFM_KIND_1 ->
                IF n.count = 1 /\ n.chunks[0] = child_chunk
                THEN LeafOverwrite(t0, node, 0, val)
                ELSE IF n.count < 1
                THEN LeafAdded([t0 EXCEPT !.nodes[node].chunks[0] = child_chunk,
                                          !.nodes[node].slots[0] = val], node)
                ELSE bfm_grow_leaf(t0, node, child_chunk, val)
          [] n.kind \in {BFM_KIND_4, BFM_KIND_16, BFM_KIND_32} ->
                LET index == search_eq(n.kind, n.chunks, child_chunk, n.count)
                    insertpos == search_le(n.kind, n.chunks, child_chunk, n.count)
                IN  IF index # -1 THEN LeafOverwrite(t0, node, index, val)
                    ELSE IF n.count < class_elements(n.kind)
                    THEN LeafAdded([t0 EXCEPT
                            !.nodes[node].slots = ArrayInsert(@, insertpos, n.count, val),
                            !.nodes[node].chunks =
                                ArrayInsert(@, insertpos, n.count, child_chunk)],
                            node)
                    ELSE bfm_grow_leaf(t0, node, child_chunk, val)
          [] n.kind = BFM_KIND_128 ->
                IF n.offsets[child_chunk] # BFM_TREE_NODE_128_INVALID
                THEN LeafOverwrite(t0, node, n.offsets[child_chunk], val)
                ELSE IF n.count < 128
                THEN LET offset == n.count
                     IN  LeafAdded([t0 EXCEPT
                                      !.nodes[node].offsets[child_chunk] = offset,
                                      !.nodes[node].slots[offset] = val], node)
                ELSE bfm_grow_leaf(t0, node, child_chunk, val)
          [] n.kind = BFM_KIND_MAX ->
                LET t1 == Check(t0, n.count <= BFM_MAX_CLASS - 1)
                IN  IF bfm_leaf_max_isset(n, child_chunk)
                    THEN LeafOverwrite(t1, node, child_chunk, val)
                    ELSE LeafAdded([t1 EXCEPT
                            !.nodes[node] = [bfm_leaf_max_set(@, child_chunk)
                                                EXCEPT !.slots[child_chunk] = val]],
                            node)

(* ------------------------------------------------------------------ *)
(* Set                                                                 *)
(* ------------------------------------------------------------------ *)
(* bfm_set_extend: below cur_inner, which has no child for chunk, build a  *)
(* chain of class-1 inner nodes down to a class-1 leaf holding the value.  *)
RECURSIVE bfm_set_extend(_, _, _, _, _, _)

\* the chain goes on below the inner node `new`, now a child of cur_inner
ExtendBelow(t, key, val, new, shift) ==
    IF t.oom \/ t.crashed THEN [t |-> t, ret |-> FALSE]
    ELSE bfm_set_extend(t, key, val, new, shift, KeyChunk(key, shift))

\* a = [t, node]: the allocation of the next inner node of the chain
ExtendInner(a, key, val, cur_inner, shift, chunk) ==
    IF a.t.oom THEN [t |-> a.t, ret |-> FALSE]
    ELSE ExtendBelow(
            bfm_insert_inner(
                [a.t EXCEPT !.nodes[a.node].node_shift = shift - BFM_FANOUT],
                cur_inner, a.node, chunk),
            key, val, a.node, shift - BFM_FANOUT)

\* a = [t, node]: the allocation of the leaf that ends the chain
ExtendLeaf(a, key, val, cur_inner, chunk) ==
    IF a.t.oom THEN [t |-> a.t, ret |-> FALSE]
    ELSE [t |-> bfm_insert_inner(
                    [a.t EXCEPT !.nodes[a.node].count = 1,
                                !.nodes[a.node].node_shift = 0,
                                !.nodes[a.node].chunks[0] = KeyChunk(key, 0),
                                !.nodes[a.node].slots[0] = val,
                                !.entries = @ + 1],
                    cur_inner, a.node, chunk),
          ret |-> FALSE]

bfm_set_extend(t, key, val, cur_inner, shift, chunk) ==
    IF cur_inner = NULL
    THEN \* bfm_insert_inner(root, NULL, ...)
         [t |-> Crash(Check(t, FALSE)), ret |-> FALSE]
    ELSE IF shift > BFM_FANOUT
    THEN ExtendInner(
            bfm_alloc_inner(Check(t, shift = t.nodes[cur_inner].node_shift),
                            BFM_KIND_1),
            key, val, cur_inner, shift, chunk)
    ELSE ExtendLeaf(
            bfm_alloc_leaf(Check(t, shift = BFM_FANOUT
                                    /\ t.nodes[cur_inner].node_shift = BFM_FANOUT),
                           BFM_KIND_1),
            key, val, cur_inner, chunk)


\* bfm_set_empty: the first key of an empty tree
\* a = [t, node]: the allocation of the root
EmptyRoot(a, shift, ub) ==
    [a.t EXCEPT !.nodes[a.node].node_shift = shift,
                !.nodes[a.node].node_chunk = 0,
                !.nodes[a.node].parent = NULL,
                !.maxval = bfm_maxval_shift(shift, ub),
                !.rnode = a.node]

SetEmptyLeaf(a, key, val, ub) ==
    IF a.t.oom THEN [t |-> a.t, ret |-> FALSE]
    ELSE bfm_set_leaf(EmptyRoot(a, 0, ub), key, val, a.node, KeyChunk(key, 0))

SetEmptyInner(a, key, val, shift, ub) ==
    IF a.t.oom THEN [t |-> a.t, ret |-> FALSE]
    ELSE bfm_set_extend(EmptyRoot(a, shift, ub), key, val, a.node, shift,
                        KeyChunk(key, shift))

bfm_set_empty(t, key, val, ub) ==
    IF KeyShift(key) = 0
    THEN SetEmptyLeaf(bfm_alloc_leaf(Check(t, t.rnode = NULL), BFM_KIND_1),
                      key, val, ub)
    ELSE SetEmptyInner(bfm_alloc_inner(Check(t, t.rnode = NULL), BFM_KIND_1),
                       key, val, KeyShift(key), ub)

(* bfm_set_shallow: the tree is not high enough for the key.  Each turn of *)
(* the loop puts a class-1 inner node over the root, the old root under    *)
(* chunk 0.  [t, nroot]: nroot stays NULL when the loop does not run.      *)
RECURSIVE ShallowLoop(_, _, _, _)

\* a = [t, node]: the allocation of the new root; oldroot is under chunk 0
ShallowRoot(a, oldroot, nshift, ub) ==
    [a.t EXCEPT !.nodes[a.node].slots[0] = oldroot,
                !.nodes[a.node].chunks[0] = 0,
                !.nodes[a.node].count = 1,
                !.nodes[a.node].parent = NULL,
                !.nodes[a.node].node_shift = nshift,
                !.nodes[oldroot].parent = a.node,
                !.rnode = a.node,
                !.maxval = bfm_maxval_shift(nshift, ub)]

ShallowTurn(a, oldroot, nshift, shift, ub, nroot) ==
    IF a.t.oom THEN [t |-> a.t, nroot |-> nroot]
    ELSE ShallowLoop(ShallowRoot(a, oldroot, nshift, ub), shift, ub, a.node)

ShallowLoop(t, shift, ub, nroot) ==
    IF t.nodes[t.rnode].node_shift < shift
    THEN ShallowTurn(bfm_alloc_inner(t, BFM_KIND_1), t.rnode,
                     t.nodes[t.rnode].node_shift + BFM_FANOUT, shift, ub, nroot)
    ELSE [t |-> t, nroot |-> nroot]


\* l = [t, nroot]: the tree and the new root after the loop
ShallowExtend(l, key, val, shift) ==
    IF l.t.oom THEN [t |-> l.t, ret |-> FALSE]
    ELSE bfm_set_extend(Check(l.t, l.nroot # NULL), key, val, l.nroot,
                        shift, KeyChunk(key, shift))

bfm_set_shallow(t, key, val, ub) ==
    ShallowExtend(
        ShallowLoop(Check(t, t.rnode # NULL
                             /\ t.nodes[t.rnode].node_shift < KeyShift(key)),
                    KeyShift(key), ub, NULL),
        key, val, KeyShift(key))

(* bfm_set: [t, ret].  ret: the key was there already (its value is        *)
(* replaced); false: it was not (it is inserted).                          *)
RECURSIVE SetFrom(_, _, _, _, _)
SetFrom(t, cur, shift, key, val) ==
    LET node == t.nodes[cur]
        chunk == KeyChunk(key, shift)
    IN  IF shift > 0
        THEN LET slot == bfm_find_one_level_inner(node, chunk)
                 t0 == Check(t, node.node_shift = shift)
             IN  IF slot = NULL
                 THEN bfm_set_extend(t0, key, val, cur, shift, chunk)
                 ELSE IF ~Live(t, slot) THEN [t |-> Crash(t0), ret |-> FALSE]
                 ELSE SetFrom(Check(t0, t.nodes[slot].parent = cur
                                        /\ t.nodes[slot].node_chunk = chunk),
                              slot, shift - BFM_FANOUT, key, val)
        ELSE bfm_set_leaf(Check(t, node.node_shift = 0), key, val, cur, chunk)

bfm_set(t, key, val, ub) ==
    IF t.rnode = NULL THEN bfm_set_empty(t, key, val, ub)
    ELSE IF KeyGt(key, t.maxval) THEN bfm_set_shallow(t, key, val, ub)
    ELSE SetFrom(t, t.rnode, t.nodes[t.rnode].node_shift, key, val)

(* ------------------------------------------------------------------ *)
(* Delete                                                              *)
(* ------------------------------------------------------------------ *)
\* count is a uint16
DecCount(c) == (c + 65535) % 65536

(* bfm_delete_inner: remove child from node; a node left with no child is  *)
(* removed from its own parent (or the tree is emptied) and freed.         *)
InnerRemove(t, node, child, child_chunk) ==
    LET n == t.nodes[node]
    IN  CASE n.kind = BFM_KIND_1 ->
                [Check(t, n.slots[0] = child /\ n.chunks[0] = child_chunk)
                    EXCEPT !.nodes[node].chunks[0] = DeadChunk,
                           !.nodes[node].slots[0] = NULL]
          [] n.kind \in {BFM_KIND_4, BFM_KIND_16, BFM_KIND_32} ->
                LET index == search_eq(n.kind, n.chunks, child_chunk, n.count)
                IN  IF index = -1 THEN Crash(Check(t, FALSE))
                    ELSE [Check(t, n.slots[index] = child) EXCEPT
                            !.nodes[node].slots = ArrayRemove(@, index, n.count, NULL),
                            !.nodes[node].chunks =
                                ArrayRemove(@, index, n.count,
                                            BFM_TREE_NODE_INNER_4_INVALID)]
          [] n.kind = BFM_KIND_128 ->
                LET offset == n.offsets[child_chunk]
                IN  IF offset = BFM_TREE_NODE_128_INVALID
                    THEN Crash(Check(t, FALSE))
                    ELSE [Check(t, n.slots[offset] = child) EXCEPT
                            !.nodes[node].offsets[child_chunk] =
                                BFM_TREE_NODE_128_INVALID,
                            !.nodes[node].slots[offset] = NULL]
          [] n.kind = BFM_KIND_MAX ->
                [Check(t, n.slots[child_chunk] = child)
                    EXCEPT !.nodes[node].slots[child_chunk] = NULL]

RECURSIVE bfm_delete_inner(_, _, _, _)

\* the node is empty: take it out of its parent, or empty the tree; free it
DropInner(t, node, n) ==
    FreeInnerIfRunning(IF n.parent # NULL
                   THEN bfm_delete_inner(t, n.parent, node, n.node_chunk)
                   ELSE [t EXCEPT !.rnode = NULL],
                   node)

\* fault: bfm_delete_inner without its "if (node->count == 0)" block
InnerRemovedKeeping(t, node) == t

\* t: the tree after the removal of the child and node->count--
InnerRemoved(t, node) ==
    IF t.crashed THEN t
    ELSE IF t.nodes[node].count = 0 THEN DropInner(t, node, t.nodes[node])
    ELSE t

bfm_delete_inner(t, node, child, child_chunk) ==
    IF ~Live(t, node) THEN Crash(t)
    ELSE InnerRemoved([InnerRemove(t, node, child, child_chunk)
                         EXCEPT !.nodes[node].count = DecCount(@)], node)


LeafRemove(t, node, child_chunk) ==
    LET n == t.nodes[node]
    IN  CASE n.kind = BFM_KIND_1 ->
                [Check(t, n.chunks[0] = child_chunk)
                    EXCEPT !.nodes[node].chunks[0] = DeadChunk]
          [] n.kind \in {BFM_KIND_4, BFM_KIND_16, BFM_KIND_32} ->
                LET index == search_eq(n.kind, n.chunks, child_chunk, n.count)
                IN  IF index = -1 THEN Crash(Check(t, FALSE))
                    ELSE [t EXCEPT
                            !.nodes[node].slots =
                                ArrayRemove(@, index, n.count, DeadValue),
                            !.nodes[node].chunks =
                                ArrayRemove(@, index, n.count,
                                            BFM_TREE_NODE_INNER_4_INVALID)]
          [] n.kind = BFM_KIND_128 ->
                [Check(t, n.offsets[child_chunk] # BFM_TREE_NODE_128_INVALID)
                    EXCEPT !.nodes[node].offsets[child_chunk] =
                               BFM_TREE_NODE_128_INVALID]
          [] n.kind = BFM_KIND_MAX ->
                [Check(t, bfm_leaf_max_isset(n, child_chunk))
                    EXCEPT !.nodes[node] = bfm_leaf_max_unset(@, child_chunk)]

DropLeaf(t, node, n) ==
    FreeLeafIfRunning(IF n.parent # NULL
                  THEN bfm_delete_inner(t, n.parent, node, n.node_chunk)
                  ELSE [t EXCEPT !.rnode = NULL],
                  node)

\* t: the tree after the removal of the entry, entries-- and node->count--
LeafRemoved(t, node) ==
    IF t.crashed THEN t
    ELSE IF t.nodes[node].count = 0 THEN DropLeaf(t, node, t.nodes[node])
    ELSE t

bfm_delete_leaf(t, node, child_chunk) ==
    LeafRemoved([LeafRemove(t, node, child_chunk)
                    EXCEPT !.entries = @ - 1,
                           !.nodes[node].count = DecCount(@)], node)

\* bfm_delete: [t, ret].  w: the result of the walk
\* fault: bfm_delete that counts an entry down before it looks at the walk
DeleteWalkedCounting(t, key, w) ==
    IF w.wild THEN [t |-> Crash(Check(t, ~w.asserts)), ret |-> FALSE]
    ELSE IF ~w.found
    THEN [t |-> [Check(t, ~w.asserts) EXCEPT !.entries = @ - 1], ret |-> FALSE]
    ELSE [t |-> bfm_delete_leaf(
                    Check(t, ~w.asserts /\ w.node # NULL
                             /\ t.nodes[w.node].node_shift = 0),
                    w.node, KeyChunk(key, 0)),
          ret |-> TRUE]

DeleteWalked(t, key, w) ==
    IF w.wild THEN [t |-> Crash(Check(t, ~w.asserts)), ret |-> FALSE]
    ELSE IF ~w.found THEN [t |-> Check(t, ~w.asserts), ret |-> FALSE]
    ELSE [t |-> bfm_delete_leaf(
                    Check(t, ~w.asserts /\ w.node # NULL
                             /\ t.nodes[w.node].node_shift = 0),
                    w.node, KeyChunk(key, 0)),
          ret |-> TRUE]

bfm_delete(t, key) == DeleteWalked(t, key, bfm_walk(t, key))

(* ------------------------------------------------------------------ *)
(* Addresses                                                           *)
(* ------------------------------------------------------------------ *)
(* Which address the allocator returns is not the program's choice, and    *)
(* the program only ever compares addresses for equality.  Between calls   *)
(* the heap is therefore kept with its nodes numbered in the order a walk  *)
(* from the root meets them (a node before its children, children by       *)
(* chunk), nodes no walk meets after those.  A pointer to no allocated     *)
(* node that is neither NULL nor unwritten memory becomes Dangling.        *)
Dangling == -2

\* the indices of the slots an inner node's finds can return, by chunk
ChildSlots(n) ==
    CASE n.kind = BFM_KIND_1 -> <<0>>
      [] n.kind \in {BFM_KIND_4, BFM_KIND_16, BFM_KIND_32} ->
            [i \in 1..(IF n.count < class_elements(n.kind) THEN n.count
                       ELSE class_elements(n.kind)) |-> i - 1]
      [] n.kind = BFM_KIND_128 ->
            LET all == [c \in 1..BFM_MAX_CLASS |-> n.offsets[c - 1]]
                Valid(o) == o # BFM_TREE_NODE_128_INVALID
            IN  SelectSeq(all, Valid)
      [] n.kind = BFM_KIND_MAX ->
            LET all == [c \in 1..BFM_MAX_CLASS |-> c - 1]
                Valid(c) == n.slots[c] # NULL
            IN  SelectSeq(all, Valid)

Renamed(map, ptr) ==
    IF ptr \in {NULL, Junk} THEN ptr
    ELSE IF ptr \in DOMAIN map THEN map[ptr]
    ELSE Dangling

RECURSIVE CanonNode(_, _, _)
RECURSIVE CanonKids(_, _, _, _, _, _)

RECURSIVE CanonKidsAfter(_, _, _, _, _, _)

\* r = [acc, slots]: the children are numbered, slots holds their addresses
CanonSlots(self, r) ==
    [heap |-> [r.acc.heap EXCEPT ![self].slots = r.slots], map |-> r.acc.map]

\* node n is placed at address self of acc
CanonPlaced(t, n, self, acc) ==
    IF ~IsInner(n) THEN acc
    ELSE CanonSlots(self,
            CanonKids(t, n.slots, ChildSlots(n), 1, Len(ChildSlots(n)),
                      [acc |-> acc,
                       slots |-> [i \in DOMAIN n.slots |->
                                    IF n.slots[i] \in {NULL, Junk}
                                    THEN n.slots[i] ELSE Dangling]]))

\* acc = [heap, map]: the renumbered nodes so far, old address -> new
CanonNode(t, old, acc) ==
    CanonPlaced(t, t.nodes[old], Len(acc.heap) + 1,
                [heap |-> Append(acc.heap,
                                 [t.nodes[old] EXCEPT
                                    !.parent = Renamed(acc.map, @)]),
                 map |-> (old :> Len(acc.heap) + 1) @@ acc.map])

\* r = [acc, slots]: the child in slot idxs[i] is numbered next
CanonKid(t, oldslots, idxs, i, r) ==
    IF ~Live(t, oldslots[idxs[i]]) \/ oldslots[idxs[i]] \in DOMAIN r.acc.map
    THEN [acc |-> r.acc,
          slots |-> [r.slots EXCEPT
                        ![idxs[i]] = Renamed(r.acc.map, oldslots[idxs[i]])]]
    ELSE [acc |-> CanonNode(t, oldslots[idxs[i]], r.acc),
          slots |-> [r.slots EXCEPT ![idxs[i]] = Len(r.acc.heap) + 1]]

\* the children in slots idxs[lo..hi], once those before them are numbered
CanonKidsAfter(t, oldslots, idxs, lo, hi, r) ==
    IF r.acc.heap = <<>> THEN r
    ELSE CanonKids(t, oldslots, idxs, lo, hi, r)

\* the children in slots idxs[lo..hi] in this order, halving the range
CanonKids(t, oldslots, idxs, lo, hi, r) ==
    IF lo > hi THEN r
    ELSE IF lo = hi THEN CanonKid(t, oldslots, idxs, lo, r)
    ELSE CanonKidsAfter(t, oldslots, idxs, (lo + hi) \div 2 + 1, hi,
            CanonKids(t, oldslots, idxs, lo, (lo + hi) \div 2, r))

\* the allocated nodes no walk from the root meets
RECURSIVE CanonLeaked(_, _)

CanonLeakedFrom(t, acc, rest, tops) ==
    IF rest = {} THEN acc
    ELSE CanonLeaked(t, CanonNode(t, Min(IF tops = {} THEN rest ELSE tops), acc))

CanonLeaked(t, acc) ==
    CanonLeakedFrom(t, acc, (DOMAIN t.nodes) \ (DOMAIN acc.map),
                    {a \in (DOMAIN t.nodes) \ (DOMAIN acc.map) :
                        t.nodes[a].parent \notin
                            (DOMAIN t.nodes) \ (DOMAIN acc.map)})


CanonEmpty == [heap |-> <<>>, map |-> <<>>]

CanonDone(t, acc) ==
    [t EXCEPT !.nodes = acc.heap, !.rnode = Renamed(acc.map, @)]

Canon(t) ==
    CanonDone(t, CanonLeaked(t, IF Live(t, t.rnode)
                                THEN CanonNode(t, t.rnode, CanonEmpty)
                                ELSE CanonEmpty))

(* ------------------------------------------------------------------ *)
(* The callers: workloads over one tree                                *)
(* ------------------------------------------------------------------ *)
(* A workload fixes the keys the callers use: a set of probe keys that are *)
(* set, deleted and looked up in any order, and a run of fill keys         *)
(* base + j * 256^byte that are set one after the other with value j + 3,  *)
(* as the loops of bfm_test_insert_leaf_grow and                           *)
(* bfm_test_insert_inner_grow do, in ascending, descending or zigzag       *)
(* order of j.  ub is the build's result of the undefined shift.           *)

\* How many fill keys the growth workloads set: one more than a node holds.
MaxFillGrow == 257
\* How many fill keys the class-128 workloads set.
MaxFill128 == 33
\* How many fill keys the height workload sets.
MaxFillSmall == 5
\* How many deletes the callers of the class-128 workloads issue.
MaxDelLeaf128 == 2
MaxDelInner128 == 1
\* How many deletes the callers of the slot-reuse workloads issue.
MaxDelReuse == 2
\* The values callers set are 0 .. MaxVal.
MaxVal == 1
\* An allocation failure comes after at most MaxAllocs allocations of a set.
MaxAllocs == 3

Vals == 0..MaxVal

KeyOf(n) == KeyAdd(KeyZero, n, 0)
Key2p56 == [KeyZero EXCEPT ![KeyBytes - 1] = 1]

FillOrders == {"asc", "desc", "zigzag"}

\* the j of the i-th fill key
FillIndex(order, i) ==
    IF i >= BFM_MAX_CLASS \/ order = "asc" THEN i
    ELSE IF order = "desc" THEN BFM_MAX_CLASS - 1 - i
    ELSE IF i % 2 = 0 THEN i \div 2
    ELSE BFM_MAX_CLASS - 1 - (i \div 2)

FillKey(w, i) == KeyAdd(w.base, FillIndex(w.order, i), w.byte)
FillVal(w, i) == FillIndex(w.order, i) + 3

\* capped: the callers issue at most maxdel deletes
Workload(name, probes, vals, base, byte, order, fillmax, capped, maxdel, ub) ==
    [name |-> name, probes |-> probes, vals |-> vals, base |-> base,
     byte |-> byte, order |-> order, fillmax |-> fillmax, capped |-> capped,
     maxdel |-> maxdel, ub |-> ub]

\* keys of every height, the top byte included
HeightWorkloads ==
    {Workload("height", {KeyOf(0), KeyOf(1024), Key2p56}, Vals, KeyOf(0), 0, "asc",
              MaxFillSmall, FALSE, 0, ub) : ub \in ShiftUB}

\* a leaf filled into class 128 and two more keys of the same leaf
Leaf128Workloads ==
    {Workload("leaf128", {KeyOf(254), KeyOf(255)}, Vals, KeyOf(0), 0, "asc",
              MaxFill128, TRUE, MaxDelLeaf128, "wrap")}

\* an inner node filled into class 128 and two more children of it
Inner128Workloads ==
    {Workload("inner128", {KeyOf(254 * 256), KeyOf(255 * 256)}, Vals,
              KeyOf(0), 1, "asc", MaxFill128, TRUE, MaxDelInner128, "wrap")}

\* a class-128 node and one more entry of it that is deleted and set again
Reuse128Workloads ==
    {Workload("reuseinner", {KeyOf(254 * 256)}, {0}, KeyOf(0), 1, "asc",
              MaxFill128, TRUE, MaxDelReuse, "wrap"),
     Workload("reuseleaf", {KeyOf(254)}, {0}, KeyOf(0), 0, "asc",
              MaxFill128, TRUE, MaxDelReuse, "wrap")}

\* a leaf filled through every class, at the root or below an inner node
LeafGrowWorkloads ==
    {Workload("leafgrow", {KeyOf(1024)}, Vals, KeyOf(0), 0, order, MaxFillGrow,
             FALSE, 0, "wrap") :
        order \in FillOrders}

\* an inner node filled through every class; the tree then gains a level
InnerGrowWorkloads ==
    {Workload("innergrow", {KeyOf(2)}, {MaxVal}, KeyOf(1), 1, order,
             MaxFillGrow, FALSE, 0, "wrap") :
        order \in FillOrders}

\* a leaf filled with all 256 chunks, one of its keys being set again
FullLeafWorkloads ==
    {Workload("fullleaf", {KeyOf(255)}, Vals, KeyOf(0), 0, order, MaxFillGrow,
              FALSE, 0, "wrap") :
        order \in FillOrders}

(* bfm_test_delete_lots: an insertion loop, then a delete loop over the    *)
(* keys that were set.  delorder is the order of the delete loop: "any"    *)
(* key that is set, or the fill keys as they were set ("first") or in      *)
(* reverse ("last"), the probes at any time.                               *)
ShrinkWorkload(w, delorder) ==
    [name |-> w.name, probes |-> w.probes, vals |-> w.vals, base |-> w.base,
     byte |-> w.byte, order |-> w.order, fillmax |-> w.fillmax,
     capped |-> w.capped, maxdel |-> w.maxdel, ub |-> w.ub,
     delorder |-> delorder]

ShrinkWorkloads ==
    {ShrinkWorkload(
        Workload("shrink", {KeyOf(0), KeyOf(1024), Key2p56}, {0}, KeyOf(0), 0,
                 "asc", n, FALSE, 0, ub), "any") :
        n \in 0..MaxFillSmall, ub \in ShiftUB}
    \cup
    {ShrinkWorkload(
        Workload("deletelots", {KeyOf(1024)}, {0}, KeyOf(b), b, "asc",
                 MaxFillGrow, FALSE, 0, "wrap"), d) :
        b \in {0, 1}, d \in {"first", "last"}}

VARIABLES
    t,       \* the tree: struct bfm_tree, the heap, the flags of the run
    model,   \* what the callers stored: key -> value of the keys set last
    last,    \* the last call: [op, key, val, ret, was]
    wl,      \* the workload
    filled,  \* how many fill keys have been set
    deletes  \* how many deletes were issued, where the workload caps them

vars == <<t, model, last, wl, filled, deletes>>

NoCall == [op |-> "none", key |-> KeyZero, val |-> 0, ret |-> FALSE, was |-> FALSE]

InitWith(workloads) ==
    /\ t = bfm_init
    /\ model = <<>>
    /\ last = NoCall
    /\ wl \in workloads
    /\ filled = 0
    /\ deletes = 0

Init == InitWith(HeightWorkloads \cup Leaf128Workloads \cup Inner128Workloads)
InitGrowLeaf == InitWith(LeafGrowWorkloads)
InitGrowInner == InitWith(InnerGrowWorkloads)
InitReuse == InitWith(Reuse128Workloads)
InitShrink == InitWith(ShrinkWorkloads)

Running == ~t.crashed /\ ~t.oom

\* a caller's bfm_set(&root, key, val); r = [t, ret]: what the call did
SetDone(r, key, val) ==
    /\ t' = Canon(r.t)
    /\ model' = IF r.t.crashed \/ r.t.oom THEN model ELSE (key :> val) @@ model
    /\ last' = [op |-> "set", key |-> key, val |-> val, ret |-> r.ret,
                was |-> key \in DOMAIN model]

DoSet(key, val) == SetDone(bfm_set(t, key, val, wl.ub), key, val)

Set ==
    /\ Running
    /\ \E key \in wl.probes, val \in wl.vals : DoSet(key, val)
    /\ UNCHANGED <<wl, filled, deletes>>

\* one turn of a test's insertion loop
Fill ==
    /\ Running
    /\ filled < wl.fillmax
    /\ DoSet(FillKey(wl, filled), FillVal(wl, filled))
    /\ filled' = filled + 1
    /\ UNCHANGED <<wl, deletes>>

\* a caller's bfm_delete(&root, key); r = [t, ret]: what the call did
DeleteDone(r, key) ==
    /\ t' = Canon(r.t)
    /\ model' = [k \in (DOMAIN model) \ {key} |-> model[k]]
    /\ last' = [op |-> "delete", key |-> key, val |-> 0, ret |-> r.ret,
                was |-> key \in DOMAIN model]

Delete ==
    /\ Running
    /\ wl.capped => deletes < wl.maxdel
    /\ deletes' = IF wl.capped THEN deletes + 1 ELSE deletes
    /\ \E key \in wl.probes : DeleteDone(bfm_delete(t, key), key)
    /\ UNCHANGED <<wl, filled>>

\* fault: a walk that stores its NULL for "no node" in root->rnode
LookupDoneClearing(w, key) ==
    /\ t' = [Check(t, ~w.asserts) EXCEPT !.rnode = IF w.found THEN @ ELSE NULL]
    /\ last' = [op |-> "lookup", key |-> key,
                val |-> IF w.found THEN w.val ELSE 0,
                ret |-> w.found, was |-> key \in DOMAIN model]

\* a caller's bfm_lookup(&root, key, &val); w: the result of the walk
LookupDone(w, key) ==
    /\ t' = IF w.wild THEN Crash(Check(t, ~w.asserts)) ELSE Check(t, ~w.asserts)
    /\ last' = [op |-> "lookup", key |-> key,
                val |-> IF w.found THEN w.val ELSE 0,
                ret |-> w.found, was |-> key \in DOMAIN model]

Lookup ==
    /\ Running
    /\ \E key \in wl.probes : LookupDone(bfm_walk(t, key), key)
    /\ UNCHANGED <<model, wl, filled, deletes>>

\* the insertion loop of bfm_test_delete_lots: before the first delete
ShrinkSet == deletes = 0 /\ Set
ShrinkFill == deletes = 0 /\ Fill

\* the keys the delete loop may take next; left: the fill keys still set, by
\* their place in the insertion loop
ShrinkKeys ==
    LET left == {i \in 0..(filled - 1) : FillKey(wl, i) \in DOMAIN model}
    IN  IF wl.delorder = "any" THEN DOMAIN model
        ELSE (wl.probes \cap DOMAIN model)
             \cup {FillKey(wl, i) :
                     i \in IF left = {} THEN {}
                           ELSE IF wl.delorder = "first" THEN {Min(left)}
                           ELSE {Max(left)}}

\* one turn of the delete loop, once the insertion loop is through
Unset ==
    /\ Running
    /\ filled = wl.fillmax
    /\ deletes' = deletes + 1
    /\ \E key \in ShrinkKeys : DeleteDone(bfm_delete(t, key), key)
    /\ UNCHANGED <<wl, filled>>

\* r: what a set did whose allocations ran out.  MemoryContextAlloc raises
\* the error inside bfm_alloc_node and the call is left where it stands.
SetFailed(r, key, val) == r.t.oom /\ SetDone(r, key, val)

\* a caller's bfm_set(&root, key, val) during which memory runs out
SetFailing ==
    /\ Running
    /\ \E key \in wl.probes, val \in wl.vals, n \in 0..MaxAllocs :
            SetFailed(bfm_set([t EXCEPT !.alloc_budget = n], key, val, wl.ub),
                      key, val)
    /\ UNCHANGED <<wl, filled, deletes>>

Next == Set \/ Fill \/ Delete \/ Lookup
NextShrink == ShrinkSet \/ ShrinkFill \/ Unset \/ Lookup
NextGrow == Set \/ Fill \/ Lookup

Spec == Init /\ [][Next]_vars
SpecGrowLeaf == InitGrowLeaf /\ [][NextGrow]_vars
SpecGrowInner == InitGrowInner /\ [][NextGrow]_vars
SpecReuse == InitReuse /\ [][Next]_vars
SpecShrink == InitShrink /\ [][NextShrink]_vars
SpecFullLeaf == InitWith(FullLeafWorkloads) /\ [][NextGrow]_vars
SpecOOM == InitWith(HeightWorkloads) /\ [][Next \/ SetFailing]_vars

(* ------------------------------------------------------------------ *)
(* The chunk-array searches on their own                               *)
(* ------------------------------------------------------------------ *)
(* A search workload is one chunk array of a class-4, -16 or -32 node and  *)
(* the build's result of the undefined shift.  The array holds one of a    *)
(* few shapes of content in its first n places and the byte `tail` behind  *)
(* them; the callers search it for every byte 0 .. MaxSearchByte with      *)
(* every count from 0 to the number of places.                             *)
MaxSearchByte == 33

SearchShapes == {"asc", "desc", "pairs", "same"}

SearchArray(shape, lanes, n, tail) ==
    [i \in 0..(lanes - 1) |->
        IF i >= n THEN tail
        ELSE CASE shape = "asc" -> i + 1
               [] shape = "desc" -> lanes - i
               [] shape = "pairs" -> i \div 2
               [] shape = "same" -> 2]

SearchWorkloads ==
    {[name |-> "search", kind |-> kind, ub |-> ub,
      chunks |-> SearchArray(shape, class_elements(kind),
                             class_elements(kind) \div part, tail)] :
        kind \in {BFM_KIND_4, BFM_KIND_16, BFM_KIND_32},
        shape \in SearchShapes,
        part \in {1, 2},
        tail \in {0, 3},
        ub \in ShiftUB}

InitSearch == InitWith(SearchWorkloads)

\* one call on the array; last: its match, count and returned index
Searched(op, match, count, index) ==
    /\ last.op = "none"
    /\ last' = [op |-> op, key |-> match, val |-> count, ret |-> index,
                was |-> FALSE]
    /\ UNCHANGED <<t, model, wl, filled, deletes>>

\* search_chunk_array_N_eq(chunks, match, count)
SearchEq ==
    \E match \in 0..MaxSearchByte, count \in 0..class_elements(wl.kind) :
        Searched("search_eq", match, count,
                 search_eq(wl.kind, wl.chunks, match, count))

\* search_chunk_array_N_le(chunks, match, count)
SearchLe ==
    \E match \in 0..MaxSearchByte, count \in 0..class_elements(wl.kind) :
        Searched("search_le", match, count,
                 IF wl.kind = BFM_KIND_32
                 THEN search_chunk_array_32_le(wl.chunks, match, count, wl.ub)
                 ELSE search_le(wl.kind, wl.chunks, match, count))

NextSearch == SearchEq \/ SearchLe

SpecSearch == InitSearch /\ [][NextSearch]_vars

(* ------------------------------------------------------------------ *)
(* The benchmark's use of the tree (bdbench.c)                         *)
(* ------------------------------------------------------------------ *)
(* A tuple id is [blk, off]: block number and offset number.  A value of   *)
(* the tree is a 64-bit bitfield, here the set of its set bit positions.   *)
ENCODE_BITS == 6
\* PostgreSQL's MaxHeapTuplesPerPage for pages of 8 kB
MaxHeapTuplesPerPage == 291

\* the least n with 2^n >= num
RECURSIVE CeilLog2From(_, _, _)
CeilLog2From(num, n, pow) ==
    IF pow >= num THEN n ELSE CeilLog2From(num, n + 1, 2 * pow)

pg_ceil_log2_32(num) == CeilLog2From(num, 0, 1)

\* x << shift in 32 bits: the bits of x from 32 - shift on are shifted out
ShiftLeft32(x, shift) == (x % (2 ^ (32 - shift))) * (2 ^ shift)

\* tid_i: the offset number, or-ed with the block number shifted left in
\* 32 bits.  The offset is below 2^shift, so the or is a sum.
PackedTid(tid) ==
    tid.off + ShiftLeft32(tid.blk, pg_ceil_log2_32(MaxHeapTuplesPerPage))

\* radix_to_key_off: [key, off].  `upper` is computed and not used: the
\* function returns tid_i.
radix_to_key_off(tid) ==
    LET tid_i == PackedTid(tid)
        off == tid_i % (2 ^ ENCODE_BITS)
        upper == tid_i \div (2 ^ ENCODE_BITS)
    IN  [key |-> KeyOf(tid_i), off |-> off]

(* radix_load: the loop over itemptrs[i .. nitems - 1], then the set of    *)
(* the last key.  last_key = PG_UINT64_MAX is KeyAllOnes.                   *)
RECURSIVE LoadFrom(_, _, _, _, _, _)
LoadFrom(tr, itemptrs, i, last_key, val, ub) ==
    IF i > Len(itemptrs)
    THEN IF last_key # KeyAllOnes THEN bfm_set(tr, last_key, val, ub).t ELSE tr
    ELSE LET r == radix_to_key_off(itemptrs[i])
         IN  IF last_key # KeyAllOnes /\ last_key # r.key
             THEN LoadFrom(bfm_set(tr, last_key, val, ub).t, itemptrs, i + 1,
                           r.key, {r.off}, ub)
             ELSE LoadFrom(tr, itemptrs, i + 1, r.key, val \cup {r.off}, ub)

radix_load(tr, itemptrs, ub) == LoadFrom(tr, itemptrs, 1, KeyAllOnes, {}, ub)

\* radix_reaped: val & ((bfm_value_type) 1 << off), as a boolean
radix_reaped(tr, tid) ==
    LET r == radix_to_key_off(tid)
    IN  IF ~bfm_lookup(tr, r.key).found THEN FALSE
        ELSE r.off \in bfm_lookup(tr, r.key).val

\* The dead tuples are on blocks 0 .. MaxBlk.
MaxBlk == 1
\* offsets on both sides of a multiple of 64, and the largest one
LoadTids ==
    {[blk |-> blk, off |-> off] :
        blk \in 0..MaxBlk, off \in {1, 63, 64, MaxHeapTuplesPerPage - 1}}

\* the tuple ids of S in the order of block and offset
RECURSIVE SortedTids(_)
SortedTids(S) ==
    IF S = {} THEN <<>>
    ELSE LET m == CHOOSE x \in S : \A y \in S :
                     x.blk < y.blk \/ (x.blk = y.blk /\ x.off <= y.off)
         IN  <<m>> \o SortedTids(S \ {m})

\* DeadTuples_orig->itemptrs: any of the tuple ids, sorted
LoadWorkloads ==
    {[name |-> "load", itemptrs |-> SortedTids(S), ub |-> ub] :
        S \in SUBSET LoadTids, ub \in ShiftUB}

InitLoad == InitWith(LoadWorkloads)

\* radix_attach: the tree is loaded once
RadixLoad ==
    /\ last.op = "none"
    /\ t' = Canon(radix_load(t, wl.itemptrs, wl.ub))
    /\ last' = [op |-> "load", key |-> KeyZero, val |-> 0, ret |-> FALSE,
                was |-> FALSE]
    /\ UNCHANGED <<model, wl, filled, deletes>>

\* radix_reaped(itemptr) on the loaded tree
Reaped ==
    /\ last.op # "none"
    /\ \E tid \in LoadTids :
            last' = [op |-> "reaped", key |-> radix_to_key_off(tid).key,
                     val |-> radix_to_key_off(tid).off,
                     ret |-> radix_reaped(t, tid),
                     was |-> \E i \in DOMAIN wl.itemptrs : wl.itemptrs[i] = tid]
    /\ UNCHANGED <<t, model, wl, filled, deletes>>

NextLoad == RadixLoad \/ Reaped

SpecLoad == InitLoad /\ [][NextLoad]_vars

(* ------------------------------------------------------------------ *)
(* Properties                                                          *)
(* ------------------------------------------------------------------ *)
\* every key the callers of a workload use
Keys(w) == w.probes \cup {FillKey(w, i) : i \in 0..(w.fillmax - 1)}

\* lookup(k) answers as the partial map of the callers' sets and deletes
Agrees(k) ==
    IF k \in DOMAIN model THEN bfm_lookup(t, k) = Found(model[k])
    ELSE ~bfm_lookup(t, k).found

\* the fields of struct bfm_tree and the nodes, without the flags of the run
TreeState(tr) ==
    [rnode |-> tr.rnode, maxval |-> tr.maxval, entries |-> tr.entries,
     inner_nodes |-> tr.inner_nodes, leaf_nodes |-> tr.leaf_nodes,
     nodes |-> tr.nodes]

\* why a walk for k finds nothing, or "found"
Path(tr, k) ==
    IF tr.rnode = NULL THEN "empty"
    ELSE IF KeyGt(k, tr.maxval) THEN "beyond"
    ELSE IF bfm_walk(tr, k).wild THEN "wild"
    ELSE IF bfm_walk(tr, k).found THEN "found"
    ELSE IF IsInner(tr.nodes[bfm_walk(tr, k).node]) THEN "nochild"
    ELSE "nochunk"

\* the node n levels below `node`, each time through chunk 0
RECURSIVE Descend0(_, _, _)
Descend0(tr, node, n) ==
    IF n = 0 \/ ~Live(tr, node) THEN node
    ELSE Descend0(tr, bfm_find_one_level_inner(tr.nodes[node], 0), n - 1)

\* the same node but for where it is and where its children are
SameNode(a, b) ==
    /\ a.kind = b.kind /\ a.node_shift = b.node_shift /\ a.count = b.count
    /\ a.chunks = b.chunks /\ a.offsets = b.offsets /\ a.set = b.set
    /\ IsInner(a) \/ a.slots = b.slots

(* C1: set(k, v) followed immediately by lookup(k) returns (true, v), for   *)
(* every key and value and from every reachable state.                     *)
C1_SetThenLookup ==
    last.op = "set" => ~t.crashed /\ bfm_lookup(t, last.key) = Found(last.val)

(* C2: after any sequence of sets and deletes, lookup(k) returns (true, v)  *)
(* when the most recent call on k was set(k, v) and (false, _) when k was  *)
(* never set or was deleted last: the tree is a partial map.               *)
C2_PartialMap == ~t.crashed /\ \A k \in Keys(wl) : Agrees(k)

(* C3: set(k, v) returns true exactly when k was present right before the  *)
(* call (it was set and not deleted since), false otherwise.               *)
C3_SetReturn == last.op = "set" => ~t.crashed /\ last.ret = last.was

(* C4: set(k, v1) then set(k, v2) then lookup(k) yields (true, v2), and    *)
(* the second set leaves the number of entries as the first left it.       *)
C4_Overwrite ==
    [][(last.op = "set" /\ last'.op = "set" /\ last'.key = last.key)
        => /\ ~t'.crashed
           /\ bfm_lookup(t', last'.key) = Found(last'.val)
           /\ t'.entries = t.entries]_vars

(* C5: set(k, v) with k > max_val on a tree that is not empty (a height    *)
(* extension) leaves lookup(k') as it was for every other key k', makes    *)
(* lookup(k) = (true, v), and leaves the old root reachable from the new   *)
(* root through chunk 0 at every added level.                              *)
C5_HeightExtension ==
    [][(last'.op = "set" /\ Path(t, last'.key) = "beyond")
        => /\ ~t'.crashed
           /\ bfm_lookup(t', last'.key) = Found(last'.val)
           /\ \A k \in Keys(wl) \ {last'.key} :
                bfm_lookup(t', k) = bfm_lookup(t, k)
           /\ LET levels == (t'.nodes[t'.rnode].node_shift
                             - t.nodes[t.rnode].node_shift) \div BFM_FANOUT
                  old == Descend0(t', t'.rnode, levels)
              IN  /\ levels >= 1
                  /\ Live(t', old)
                  /\ SameNode(t.nodes[t.rnode], t'.nodes[old])]_vars

(* C6: set(k, v) with k <= max_val whose walk stops at an inner node with  *)
(* no child for k's chunk attaches a chain of new class-1 nodes down to a  *)
(* leaf: it returns false, lookup(k) is then (true, v), and every key      *)
(* found before the call is found with the same value after it.            *)
C6_DownwardChain ==
    [][(last'.op = "set" /\ Path(t, last'.key) = "nochild")
        => /\ ~t'.crashed
           /\ ~last'.ret
           /\ bfm_lookup(t', last'.key) = Found(last'.val)
           /\ LET leaf == t'.nodes[bfm_walk(t', last'.key).node]
              IN  ~IsInner(leaf) /\ leaf.kind = BFM_KIND_1 /\ leaf.count = 1
           /\ \A k \in Keys(wl) \ {last'.key} :
                bfm_lookup(t, k).found => bfm_lookup(t', k) = bfm_lookup(t, k)]_vars

(* C7: keys of one leaf set one after the other with value j + 3, in       *)
(* ascending, descending or another order, the leaf being the root or the  *)
(* child of an inner node: every key set so far is found with its value    *)
(* after every insertion, through every class up to 256, and each of       *)
(* these sets returns false.                                               *)
C7_LeafGrowth ==
    /\ ~t.crashed
    /\ \A i \in 0..(filled - 1) :
            bfm_lookup(t, FillKey(wl, i)) = Found(FillVal(wl, i))
    /\ (last.op = "set" /\ last.key \notin wl.probes) => ~last.ret

\* a leaf below an inner node holds 256 keys that were set in descending order
C7_Witness ==
    /\ wl.order = "desc"
    /\ filled >= BFM_MAX_CLASS
    /\ \E a \in DOMAIN t.nodes :
            /\ ~IsInner(t.nodes[a]) /\ t.nodes[a].kind = BFM_KIND_MAX
            /\ t.nodes[a].count = BFM_MAX_CLASS /\ t.nodes[a].parent # NULL

(* C8: keys that differ in the chunk selecting a child of one inner node   *)
(* are set one after the other, the node growing through every class and   *)
(* the tree then gaining a level: after every insertion every key set so   *)
(* far is found with its own value.                                        *)
C8_InnerGrowth ==
    /\ ~t.crashed
    /\ \A k \in DOMAIN model : bfm_lookup(t, k) = Found(model[k])

\* an inner node has 256 children and the tree has gained a level over it
C8_Witness ==
    /\ filled > BFM_MAX_CLASS
    /\ t.nodes[t.rnode].node_shift = 2 * BFM_FANOUT
    /\ \E a \in DOMAIN t.nodes :
            /\ IsInner(t.nodes[a]) /\ t.nodes[a].kind = BFM_KIND_MAX
            /\ t.nodes[a].count = BFM_MAX_CLASS

(* C9: delete(k) whose walk finds no k (empty tree, k > max_val, an inner  *)
(* node without the child, a leaf without the chunk) returns false and     *)
(* leaves root, nodes, counts and entries, hence every lookup, unchanged.  *)
C9_DeleteAbsent ==
    [][(last'.op = "delete"
        /\ Path(t, last'.key) \in {"empty", "beyond", "nochild", "nochunk"})
        => /\ ~last'.ret
           /\ TreeState(t') = TreeState(t)
           /\ t'.crashed = t.crashed
           /\ \A k \in Keys(wl) : bfm_lookup(t', k) = bfm_lookup(t, k)]_vars

\* a delete returned false on a tree that holds keys, in a leaf without the chunk
C9_Witness ==
    /\ last.op = "delete" /\ ~last.ret
    /\ t.entries > 0
    /\ Path(t, last.key) = "nochunk"

(* C10: delete(k) returns true exactly when k was present right before the *)
(* call; after it returned true lookup(k) is (false, _) and a repeated     *)
(* delete(k) returns false.                                                *)
C10_DeleteReturn ==
    last.op = "delete"
        => /\ ~t.crashed
           /\ last.ret = last.was
           /\ last.ret => /\ ~bfm_lookup(t, last.key).found
                          /\ ~bfm_delete(t, last.key).ret

(* C11: delete(k) of a key the walk finds leaves lookup(k') as it was, in  *)
(* found flag and value, for every other key k': in the same leaf, in a    *)
(* sibling subtree, or when the leaf and empty ancestors are freed.        *)
C11_DeleteFrame ==
    [][(last'.op = "delete" /\ Path(t, last'.key) = "found")
        => /\ ~t'.crashed
           /\ last'.ret
           /\ \A k \in Keys(wl) \ {last'.key} :
                bfm_lookup(t', k) = bfm_lookup(t, k)]_vars

(* C12: once every key that was set has been deleted again, in any order, *)
(* each delete returned true, the tree has no root and no key is found.    *)
C12_ShrinkToEmpty ==
    deletes > 0
        => /\ ~t.crashed
           /\ last.op = "delete" => last.ret
           /\ DOMAIN model = {}
                => /\ t.rnode = NULL
                   /\ \A k \in Keys(wl) : ~bfm_lookup(t, k).found

\* the nodes a walk from node a can meet, at most `depth` levels down
RECURSIVE ReachFrom(_, _, _)
ReachFrom(tr, a, depth) ==
    IF ~Live(tr, a) THEN {}
    ELSE IF ~IsInner(tr.nodes[a]) \/ depth = 0 THEN {a}
    ELSE {a} \cup UNION {ReachFrom(tr, tr.nodes[a].slots[ChildSlots(tr.nodes[a])[i]],
                                   depth - 1) :
                            i \in DOMAIN ChildSlots(tr.nodes[a])}

Reach(tr) == ReachFrom(tr, tr.rnode, KeyBytes)

\* the child pointers the finds of node a can return
ChildPtrs(tr, a) ==
    {tr.nodes[a].slots[ChildSlots(tr.nodes[a])[i]] :
        i \in DOMAIN ChildSlots(tr.nodes[a])}

\* no reference from the root or a reachable node leads outside the nodes
\* that are allocated and linked, and no reachable inner node is childless
NoDangling(tr) ==
    /\ tr.rnode = NULL \/ Live(tr, tr.rnode)
    /\ \A a \in Reach(tr) :
            /\ tr.nodes[a].parent = NULL \/ Live(tr, tr.nodes[a].parent)
            /\ IsInner(tr.nodes[a])
                => /\ tr.nodes[a].count > 0
                   /\ \A c \in ChildPtrs(tr, a) :
                        Live(tr, c) /\ tr.nodes[c].parent = a

(* C13: when an allocation fails in the middle of set, the tree left       *)
(* behind has no dangling parent or child reference, no reachable inner    *)
(* node without children, and every key found before is found with its     *)
(* value.                                                                  *)
C13_AllocFailure ==
    [][(t'.oom /\ ~t.oom)
        => /\ ~t'.crashed
           /\ NoDangling(t')
           /\ \A k \in Keys(wl) :
                bfm_lookup(t, k).found => bfm_lookup(t', k) = bfm_lookup(t, k)]_vars

\* 2^(shift + 8) - 1 as a key
LargestKey(shift) ==
    [i \in 0..(KeyBytes - 1) |-> IF i * BFM_FANOUT <= shift THEN BFM_MASK ELSE 0]

(* C14: between calls, a tree with a root has max_val = 2^(root shift + 8) *)
(* - 1 and holds no key above max_val; a tree without a root finds no key, *)
(* whatever max_val holds.                                                 *)
C14_MaxVal ==
    Running
        => IF t.rnode # NULL
           THEN /\ t.maxval = LargestKey(t.nodes[t.rnode].node_shift)
                /\ \A k \in DOMAIN model : ~KeyGt(k, t.maxval)
           ELSE \A k \in Keys(wl) : ~bfm_lookup(t, k).found

(* C15: lookup(k) leaves root, max_val, every node and the statistics     *)
(* counters as they were, for keys it finds and keys it does not find.     *)
C15_LookupFrame ==
    [][last'.op = "lookup" => TreeState(t') = TreeState(t)]_vars

\* a lookup that found its key and a tree that holds more keys
C15_Witness ==
    /\ last.op = "lookup" /\ last.ret
    /\ t.entries > 1 /\ t.nodes[t.rnode].node_shift > 0

\* the chunks a class-128 node holds
Chunks128(n) ==
    {c \in 0..(BFM_MAX_CLASS - 1) : n.offsets[c] # BFM_TREE_NODE_128_INVALID}

(* C16: in every class-128 node, inner or leaf, the slot offsets of the    *)
(* chunks it holds are pairwise distinct, also after an entry was deleted  *)
(* and a new chunk was inserted into the node.                             *)
C16_DistinctOffsets ==
    \A a \in DOMAIN t.nodes :
        t.nodes[a].kind = BFM_KIND_128
            => Cardinality({t.nodes[a].offsets[c] : c \in Chunks128(t.nodes[a])})
                 = Cardinality(Chunks128(t.nodes[a]))

\* how many nodes, from node a upwards, hold one entry only
RECURSIVE ChainUp(_, _)
ChainUp(tr, a) ==
    IF ~Live(tr, a) \/ tr.nodes[a].count # 1 THEN 0
    ELSE 1 + ChainUp(tr, tr.nodes[a].parent)

(* C17: after delete(k) of a key the walk finds, no node reachable from    *)
(* the root has count 0: the emptied leaf and every ancestor emptied with  *)
(* it are freed and no other node is, and the root is absent exactly when  *)
(* k was the last key of the tree.                                         *)
C17_DeleteCascade ==
    [][(last'.op = "delete" /\ Path(t, last'.key) = "found")
        => /\ ~t'.crashed
           /\ \A a \in Reach(t') : t'.nodes[a].count > 0
           /\ Reach(t) = DOMAIN t.nodes => Reach(t') = DOMAIN t'.nodes
           /\ Cardinality(DOMAIN t.nodes) - Cardinality(DOMAIN t'.nodes)
                = ChainUp(t, bfm_walk(t, last'.key).node)
           /\ (t'.rnode = NULL) <=> (t.entries = 1)]_vars

\* a delete freed a leaf and ancestors of it and left a tree with other keys
C17_Witness ==
    /\ last.op = "delete" /\ last.ret /\ last.key = KeyOf(1024)
    /\ t.rnode # NULL /\ t.nodes[t.rnode].node_shift = 7 * BFM_FANOUT
    /\ Key2p56 \in DOMAIN model /\ KeyOf(0) \in DOMAIN model

\* node c is the child that node a of tr holds under chunk ch
LinkedChild(tr, a, ch, c) ==
    /\ Live(tr, c)
    /\ tr.nodes[c].node_shift = tr.nodes[a].node_shift - BFM_FANOUT
    /\ tr.nodes[c].parent = a
    /\ tr.nodes[c].node_chunk = ch

WellLinked(tr) ==
    /\ tr.rnode # NULL => Live(tr, tr.rnode) /\ tr.nodes[tr.rnode].parent = NULL
    /\ \A a \in Reach(tr) :
            IsInner(tr.nodes[a])
                => \A ch \in 0..(BFM_MAX_CLASS - 1) :
                      bfm_find_one_level_inner(tr.nodes[a], ch) # NULL
                        => LinkedChild(tr, a, ch,
                                bfm_find_one_level_inner(tr.nodes[a], ch))

(* C18: between calls, every child reachable from the root has its         *)
(* parent's shift minus 8, points back to the node that holds it and       *)
(* records the chunk it is stored under, the root has no parent, and no    *)
(* assertion of bfm_walk, bfm_set or bfm_redirect has failed.              *)
C18_WellLinked == Running => WellLinked(t) /\ ~t.assert_failed

\* the chunks for which a one-level find in node n returns an entry
FoundChunks(n) ==
    IF IsInner(n)
    THEN {ch \in 0..(BFM_MAX_CLASS - 1) : bfm_find_one_level_inner(n, ch) # NULL}
    ELSE {ch \in 0..(BFM_MAX_CLASS - 1) : bfm_find_one_level_leaf(n, ch).found}

(* C19: between calls, every allocated node's count is the number of       *)
(* chunks a one-level find in it answers, and is at most the number of     *)
(* elements of the node's size class.                                      *)
C19_CountMatches ==
    Running => \A a \in DOMAIN t.nodes :
                  /\ t.nodes[a].count = Cardinality(FoundChunks(t.nodes[a]))
                  /\ t.nodes[a].count <= class_elements(t.nodes[a].kind)

\* set(key, .) on tr finds the node that lacks the key's chunk full, and
\* grows it
Grows(tr, key) ==
    /\ ~tr.crashed
    /\ Path(tr, key) \in {"nochild", "nochunk"}
    /\ tr.nodes[bfm_walk(tr, key).node].kind # BFM_KIND_MAX
    /\ tr.nodes[bfm_walk(tr, key).node].count
            = class_elements(tr.nodes[bfm_walk(tr, key).node].kind)

\* [t, node]: the tree right after the growth block that set(key, val)
\* runs on node old of tr, its bfm_free_inner or bfm_free_leaf included,
\* and the replacement node
GrowthOf(tr, old, key, val) ==
    IF IsInner(tr.nodes[old])
    THEN bfm_grow_inner(
            (IF tr.nodes[old].node_shift > BFM_FANOUT
             THEN bfm_alloc_inner(tr, BFM_KIND_1)
             ELSE bfm_alloc_leaf(tr, BFM_KIND_1)).t, old)
    ELSE [t |-> bfm_grow_leaf(tr, old, KeyChunk(key, 0), val).t,
          node |-> FreshAddr(tr)]

\* no pointer of the root or of a node reachable from it is ptr
Unreferenced(tr, ptr) ==
    /\ tr.rnode # ptr
    /\ \A a \in Reach(tr) :
            /\ tr.nodes[a].parent # ptr
            /\ IsInner(tr.nodes[a]) => ptr \notin ChildPtrs(tr, a)

\* g is the tree after the growth of node old (record o) into node new
GrownTree(g, old, o, new) ==
    /\ ~g.crashed /\ ~g.assert_failed
    /\ ~Live(g, old) /\ Live(g, new) /\ new # old
    /\ g.nodes[new].kind = o.kind + 1
    /\ g.nodes[new].node_shift = o.node_shift
    /\ IF IsInner(o)
       THEN /\ g.nodes[new].count = o.count
            /\ \A ch \in 0..(BFM_MAX_CLASS - 1) :
                    /\ bfm_find_one_level_inner(g.nodes[new], ch)
                            = bfm_find_one_level_inner(o, ch)
                    /\ bfm_find_one_level_inner(o, ch) # NULL
                            => g.nodes[bfm_find_one_level_inner(o, ch)].parent = new
       ELSE \A ch \in FoundChunks(o) :
                    bfm_find_one_level_leaf(g.nodes[new], ch)
                        = bfm_find_one_level_leaf(o, ch)
    /\ IF o.parent = NULL THEN g.rnode = new
       ELSE bfm_find_one_level_inner(g.nodes[o.parent], o.node_chunk) = new
    /\ Unreferenced(g, old)

\* r = [t, node] is the tree after the growth of node old (record o) and
\* the replacement
GrownInto(r, old, o) == GrownTree(r.t, old, o, r.node)

(* C20: when a set grows a node, the tree at the moment the old node has   *)
(* been freed has the replacement, one class up, holding every entry of    *)
(* the old node, every child pointing to the replacement as its parent,    *)
(* the parent's slot (or the root) pointing to the replacement, and no     *)
(* pointer of the root or of a reachable node referring to the freed       *)
(* node; after the call nothing dangles and every key is still found.      *)
C20_GrowthOrder ==
    [][(last'.op = "set" /\ Grows(t, last'.key))
        => /\ GrownInto(GrowthOf(t, bfm_walk(t, last'.key).node,
                                 last'.key, last'.val),
                        bfm_walk(t, last'.key).node,
                        t.nodes[bfm_walk(t, last'.key).node])
           /\ ~t'.crashed /\ NoDangling(t')
           /\ \A k \in Keys(wl) :
                bfm_lookup(t, k).found => bfm_lookup(t', k) = bfm_lookup(t, k)]_vars

\* a set has put a second child into an inner node that is not the root,
\* which was of class 1 and has been replaced by a node of class 4
C20_Witness ==
    /\ last.op = "set" /\ ~last.ret /\ last.key \in {KeyOf(0), KeyOf(1024)}
    /\ t.rnode # NULL
    /\ t.nodes[t.rnode].node_shift = 7 * BFM_FANOUT
    /\ Live(t, Descend0(t, t.rnode, 6))
    /\ t.nodes[Descend0(t, t.rnode, 6)].kind = BFM_KIND_4
    /\ t.nodes[Descend0(t, t.rnode, 6)].count = 2
    /\ t.nodes[Descend0(t, t.rnode, 6)].parent # NULL

\* <<shift, kind, count, address>> of the nodes below cur that the chunks
\* of key k lead through, at most `depth` levels down
RECURSIVE PositionsFrom(_, _, _, _)
PositionsFrom(tr, cur, k, depth) ==
    IF ~Live(tr, cur) THEN {}
    ELSE {<<tr.nodes[cur].node_shift, tr.nodes[cur].kind, tr.nodes[cur].count, cur>>}
         \cup (IF IsInner(tr.nodes[cur]) /\ depth > 0
                THEN PositionsFrom(tr,
                        bfm_find_one_level_inner(tr.nodes[cur],
                            KeyChunk(k, tr.nodes[cur].node_shift)),
                        k, depth - 1)
                ELSE {})

\* none when the tree is empty or not high enough to hold k
Positions(tr, k) ==
    IF ~Live(tr, tr.rnode) \/ KeyGt(k, LargestKey(tr.nodes[tr.rnode].node_shift))
    THEN {}
    ELSE PositionsFrom(tr, tr.rnode, k, KeyBytes)

\* the node at position p of t is the full node that the call of last' grows
GrownBy(p) ==
    /\ last'.op = "set" /\ ~last'.ret
    /\ p[3] = class_elements(p[2])
    /\ Grows(t, last'.key)
    /\ bfm_walk(t, last'.key).node = p[4]

(* C21: across every call, a tree position that is occupied before and     *)
(* after it keeps its size class, unless the call is a set of a new chunk   *)
(* that found this node with count equal to the elements of its class, and  *)
(* then the class is the next one; no call leaves a smaller class.          *)
C21_ClassUpward ==
    [][~t'.crashed
        => \A k \in Keys(wl) :
             \A p \in Positions(t, k), q \in Positions(t', k) :
                p[1] = q[1] => \/ q[2] = p[2]
                               \/ q[2] = p[2] + 1 /\ GrownBy(p)]_vars

\* deletes have left one entry in a node of the largest class
C21_Witness ==
    /\ last.op = "delete" /\ last.ret
    /\ \E a \in Reach(t) : t.nodes[a].kind = BFM_KIND_MAX /\ t.nodes[a].count = 1

\* the key is in a leaf of the largest class that holds all 256 chunks
InFullLeaf(tr, key) ==
    /\ ~tr.crashed /\ ~tr.assert_failed
    /\ Path(tr, key) = "found"
    /\ tr.nodes[bfm_walk(tr, key).node].kind = BFM_KIND_MAX
    /\ tr.nodes[bfm_walk(tr, key).node].count = BFM_MAX_CLASS

(* C22: set(k, v) of a key that is in a class-256 leaf holding all 256      *)
(* chunks fails no assertion, returns true, replaces the value and leaves   *)
(* the count of entries as it was.                                          *)
C22_FullLeafOverwrite ==
    [][(last'.op = "set" /\ InFullLeaf(t, last'.key))
        => /\ ~t'.assert_failed /\ ~t'.crashed
           /\ last'.ret
           /\ bfm_lookup(t', last'.key) = Found(last'.val)
           /\ t'.entries = t.entries]_vars

\* the first count chunks of node n ascend strictly
Ascending(n) ==
    \A i \in 0..(n.count - 2) : n.chunks[i] < n.chunks[i + 1]

(* C23: between calls, in every node of class 4, 16 or 32, inner or leaf,  *)
(* the first count chunks are strictly ascending.                          *)
C23_ChunksAscend ==
    ~t.crashed
        => \A a \in DOMAIN t.nodes :
              t.nodes[a].kind \in {BFM_KIND_4, BFM_KIND_16, BFM_KIND_32}
                  => Ascending(t.nodes[a])

\* the lowest key of a class-16 leaf with five keys was deleted and has
\* just been set again
C23_Witness ==
    /\ last.op = "set" /\ ~last.ret /\ last.key = KeyOf(0)
    /\ Path(t, KeyOf(0)) = "found"
    /\ t.nodes[bfm_walk(t, KeyOf(0)).node].kind = BFM_KIND_16
    /\ t.nodes[bfm_walk(t, KeyOf(0)).node].count = 5

\* the keys of the workload that a lookup finds
Present(tr) == {k \in Keys(wl) : bfm_lookup(tr, k).found}

\* what a call that returned ret adds to the entries counter
EntriesStep(op, ret) ==
    IF op = "set" /\ ~ret THEN 1
    ELSE IF op = "delete" /\ ret THEN -1
    ELSE 0

(* C24: after every call the entries counter is the number of keys that    *)
(* are present; a set returning false adds 1 to it, a delete returning     *)
(* true takes 1 from it, every other call leaves it as it was.             *)
C24_Entries ==
    [][/\ ~t'.crashed
       /\ t'.entries = Cardinality(Present(t'))
       /\ t'.entries = t.entries + EntriesStep(last'.op, last'.ret)]_vars

\* the nodes of a family and class that are reachable from the root
ReachOf(tr, inner, kind) ==
    {a \in Reach(tr) : IsInner(tr.nodes[a]) = inner /\ tr.nodes[a].kind = kind}

(* C25: between calls, each of the twelve node counters is the number of   *)
(* nodes of its family and class reachable from the root, and all are 0    *)
(* when there is no root.                                                  *)
C25_NodeCounters ==
    Running
        => \A kind \in 0..(BFM_KIND_COUNT - 1) :
              /\ t.inner_nodes[kind] = Cardinality(ReachOf(t, TRUE, kind))
              /\ t.leaf_nodes[kind] = Cardinality(ReachOf(t, FALSE, kind))
              /\ t.rnode = NULL
                    => t.inner_nodes[kind] = 0 /\ t.leaf_nodes[kind] = 0

\* floor(msb(k) / 8), 0 for k = 0: the index of the highest byte of k
\* that is not 0
TopByte(k) == IF k = KeyZero THEN 0 ELSE Max({i \in 0..(KeyBytes - 1) : k[i] # 0})

\* tr is one chain of class-1 nodes for key k alone, holding value v
FreshChain(tr, k, v) ==
    /\ Live(tr, tr.rnode)
    /\ tr.nodes[tr.rnode].node_shift = BFM_FANOUT * TopByte(k)
    /\ Cardinality(Reach(tr)) = TopByte(k) + 1
    /\ {p[1] : p \in Positions(tr, k)}
            = {BFM_FANOUT * i : i \in 0..TopByte(k)}
    /\ \A p \in Positions(tr, k) :
            /\ p[2] = BFM_KIND_1 /\ p[3] = 1
            /\ p[1] = 0 => bfm_find_one_level_leaf(tr.nodes[p[4]], k[0]) = Found(v)
    /\ tr.entries = 1

(* C26: set(k, v) on a tree without root returns false and leaves a root   *)
(* of shift 8 * floor(msb(k) / 8), one class-1 inner node for every level  *)
(* above the leaf and one class-1 leaf holding (k mod 256, v), and max_val *)
(* is the largest key of that height.                                      *)
C26_SetEmpty ==
    [][(last'.op = "set" /\ Running /\ t.rnode = NULL)
        => /\ ~t'.crashed
           /\ ~last'.ret
           /\ FreshChain(t', last'.key, last'.val)
           /\ t'.maxval = LargestKey(BFM_FANOUT * TopByte(last'.key))]_vars

(* C27: a root of shift 56 has max_val = 2^64 - 1; the set of a key       *)
(* >= 2^56 is followed by lookup finding the key with its value, and the   *)
(* set of any other key then descends from the root without a crash.       *)
C27_MaxValTop ==
    (Running /\ t.rnode # NULL /\ t.nodes[t.rnode].node_shift = 7 * BFM_FANOUT)
        => /\ t.maxval = LargestKey(7 * BFM_FANOUT)
           /\ (last.op = "set" /\ TopByte(last.key) = 7)
                => bfm_lookup(t, last.key) = Found(last.val)
           /\ \A k \in Keys(wl) :
                /\ ~KeyGt(k, t.maxval)
                /\ ~bfm_set(t, k, 0, wl.ub).t.crashed

\* the scalar loops: the first index below count that holds match (-1 when
\* none does), and the first index below count that holds a byte >= match
\* (count when none does)
RECURSIVE ScanEq(_, _, _, _)
ScanEq(chunks, match, count, i) ==
    IF i >= count THEN -1
    ELSE IF chunks[i] = match THEN i
    ELSE ScanEq(chunks, match, count, i + 1)

RECURSIVE ScanLe(_, _, _, _)
ScanLe(chunks, match, count, i) ==
    IF i >= count THEN count
    ELSE IF chunks[i] >= match THEN i
    ELSE ScanLe(chunks, match, count, i + 1)

\* the array with byte b in every place from count on
TailSet(chunks, count, b) ==
    [i \in DOMAIN chunks |-> IF i >= count THEN b ELSE chunks[i]]

(* C28: the equality search of a class-4, -16 or -32 array returns what a  *)
(* linear scan of the first count entries returns, -1 when none of them    *)
(* matches, whatever the bytes from count on are.                          *)
C28_EqSearch ==
    last.op = "search_eq"
        => /\ last.ret = ScanEq(wl.chunks, last.key, last.val, 0)
           /\ \A b \in {last.key, 0, BFM_MASK} :
                search_eq(wl.kind, TailSet(wl.chunks, last.val, b),
                          last.key, last.val) = last.ret

\* a 16-wide search found nothing although the byte right behind the
\* first count entries is the match
C28_Witness ==
    /\ last.op = "search_eq" /\ wl.kind = BFM_KIND_16
    /\ last.val > 0 /\ last.val < 16
    /\ wl.chunks[last.val] = last.key
    /\ last.ret = -1

\* the first count entries ascend strictly
AscendingTo(chunks, count) ==
    \A i \in 0..(count - 2) : chunks[i] < chunks[i + 1]

(* C29: the insertion-point search of an ascending class-4, -16 or -32     *)
(* array returns the first index below count whose chunk is >= the match,  *)
(* and count when there is none, as the scalar loop does.                  *)
C29_LeSearch ==
    (last.op = "search_le" /\ AscendingTo(wl.chunks, last.val))
        => last.ret = ScanLe(wl.chunks, last.key, last.val, 0)

\* the tuple ids that were loaded, and those of them that agree with tid
\* on the packed integer's bits above the low ENCODE_BITS
Loaded == {wl.itemptrs[i] : i \in DOMAIN wl.itemptrs}

SameUpper(tid) ==
    {x \in Loaded : PackedTid(x) \div (2 ^ ENCODE_BITS)
                        = PackedTid(tid) \div (2 ^ ENCODE_BITS)}

(* C30: the key of a tuple id is the packed integer without its low 6      *)
(* bits, which are the bit index off; after radix_load the tuple ids that  *)
(* agree on the upper bits have one key and one entry, whose value has     *)
(* exactly their bits set, and the tree has one entry for each such group. *)
C30_KeyEncoding ==
    last.op \in {"load", "reaped"}
        => /\ \A tid \in Loaded :
                /\ radix_to_key_off(tid).key
                        = KeyOf(PackedTid(tid) \div (2 ^ ENCODE_BITS))
                /\ radix_to_key_off(tid).off = PackedTid(tid) % (2 ^ ENCODE_BITS)
                /\ \A x \in SameUpper(tid) :
                        radix_to_key_off(x).key = radix_to_key_off(tid).key
                /\ bfm_lookup(t, radix_to_key_off(tid).key)
                        = Found({radix_to_key_off(x).off : x \in SameUpper(tid)})
           /\ t.entries = Cardinality({SameUpper(tid) : tid \in Loaded})

====
